---- MODULE Spec2Model ----
(***************************************************************************)
(* A model of the kvs storage engine: the append-only log (src/log.rs),    *)
(* the manifest, and the KvStore engine on top of it (src/engines/kvs.rs). *)
(*                                                                         *)
(* Files are sequences of tokens, one token per primitive that bincode     *)
(* writes (a u64, a u16, an enum tag, a length-prefixed string), so that   *)
(* encoding and decoding, file offsets, sizes, partially written records   *)
(* and in-place overwrites are all computed as the code computes them.     *)
(* The directory maps names to inodes, so that a rename and a handle that  *)
(* stays open across it behave as on POSIX.                                *)
(*                                                                         *)
(* Further sections model the engine shared by several threads, the        *)
(* SharedQueueThreadPool (src/thread_pool/shared_queue_thread_pool.rs) and *)
(* the KvsServer's connection loop (src/server.rs).                        *)
(***************************************************************************)
EXTENDS Integers, Sequences, FiniteSets, TLC

\* ------------------------------------------------------------------ bounds
NumKeys == 2
NumVals == 2
MaxWrites == 3
MaxOpens == 2
MaxCompactions == 2
NumThreads == 2
NumWorkers == 2
MaxJobs == 3
NumConns == 2
NumErrors == 2
MaxRotations == 2
MaxFailures == 1
U64Bits == 5
\* The high-water mark of the log's total size, in bytes: a size that
\* MaxWrites records pass (a Set record is 30 bytes long, an Rm record 21)
HighWaterMark == 64

Keys == 1..NumKeys
Values == 1..NumVals
Threads == 1..NumThreads

\* ------------------------------------------------------- generic helpers
Range(f) == {f[x] : x \in DOMAIN f}

Restrict(f, S) == [x \in S |-> f[x]]

MapInsert(f, k, v) == [x \in DOMAIN f \cup {k} |-> IF x = k THEN v ELSE f[x]]

MapRemove(f, k) == [x \in DOMAIN f \ {k} |-> f[x]]

EmptyMap == <<>>

MaxOf(S) == CHOOSE x \in S : \A y \in S : y <= x

U64Max(a, b) == IF a >= b THEN a ELSE b

\* u64 is modelled U64Bits wide: u64::MAX, and + and - as the build does
\* them, wrapping when overflow is not checked
U64MAX == 2^U64Bits - 1

Overflows(x) == x < 0 \/ x > U64MAX

Wrapping(x) == x % (U64MAX + 1)

\* LET x == v IN F(x), with v evaluated once, before F
Let(v, F(_)) == CHOOSE y \in {F(x) : x \in {v}} : TRUE

\* All orders in which the elements of S can be listed.
Orders(S) ==
  {s \in [1..Cardinality(S) -> S] : \A i, j \in DOMAIN s : s[i] = s[j] => i = j}

\* ------------------------------------------------------------ LogRecord
\* enum LogOperation { Set { key, value }, Rm { key } }: bincode writes the
\* variant's position as the tag.
TagSet == 0
TagRm == 1

OpSet(k, v) == [tag |-> TagSet, key |-> k, value |-> v]
OpRm(k) == [tag |-> TagRm, key |-> k, value |-> 0]

LogRecord(i, op) == [index |-> i, operation |-> op]

\* ---------------------------------------------------------------- bincode
Tok(t, v) == [t |-> t, v |-> v]

\* serialize_into(&LogRecord): index, operation tag, key, and the value of a Set
SerializeRecord(r) ==
  <<Tok("u64", r.index), Tok("tag", r.operation.tag), Tok("str", r.operation.key)>>
  \o (IF r.operation.tag = TagSet THEN <<Tok("str", r.operation.value)>> ELSE <<>>)

NoRecord == LogRecord(0, OpRm(0))

\* deserialize_from::<LogRecord> with the file positioned at offset off
\* (the number of tokens before it)
DeserializeRecord(bytes, off) ==
  LET has(i, t) == off + i <= Len(bytes) /\ bytes[off + i].t = t
      good == /\ has(1, "u64")
              /\ has(2, "tag")
              /\ bytes[off + 2].v \in {TagSet, TagRm}
              /\ has(3, "str")
              /\ (bytes[off + 2].v = TagSet => has(4, "str"))
  IN IF good
     THEN [ok |-> TRUE,
           record |-> LogRecord(bytes[off + 1].v,
                                IF bytes[off + 2].v = TagSet
                                THEN OpSet(bytes[off + 3].v, bytes[off + 4].v)
                                ELSE OpRm(bytes[off + 3].v)),
           next |-> off + (IF bytes[off + 2].v = TagSet THEN 4 ELSE 3)]
     ELSE [ok |-> FALSE, record |-> NoRecord, next |-> off]

\* Writing data into a file at position pos: overwrites what is there and
\* extends the file past its end (the file is not truncated).
WriteAt(bytes, pos, data) ==
  [i \in 1..U64Max(Len(bytes), pos + Len(data)) |->
     IF i > pos /\ i <= pos + Len(data) THEN data[i - pos] ELSE bytes[i]]

\* ------------------------------------------------------------------ files
ManifestPath == <<0, "MANIFEST">>
ManifestNewPath == <<0, "MANIFEST.new">>
LogFilePath(n) == <<n, ".log">>
TmpFilePath(n) == <<n, ".log.tmp">>
CreatedFilePath(n) == <<n, "">>

EmptyFs == [dir |-> EmptyMap, inodes |-> EmptyMap]

Exists(f, name) == name \in DOMAIN f.dir

Content(f, name) == f.inodes[f.dir[name]]

FreshInode(f) ==
  CHOOSE i \in 1..(Cardinality(DOMAIN f.inodes) + 1) : i \notin DOMAIN f.inodes

\* File::create: a new empty file, or the existing one truncated
FileCreate(f, name) ==
  IF Exists(f, name)
  THEN [f EXCEPT !.inodes[f.dir[name]] = <<>>]
  ELSE LET i == FreshInode(f)
       IN [dir |-> MapInsert(f.dir, name, i), inodes |-> MapInsert(f.inodes, i, <<>>)]

\* OpenOptions write(true).create(true): the existing file as it is, or a new one
FileOpenOrCreate(f, name) ==
  IF Exists(f, name) THEN f ELSE FileCreate(f, name)

\* std::fs::rename(from, to), from existing: to now names from's inode
FileRename(f, from, to) ==
  [f EXCEPT !.dir = MapInsert(MapRemove(f.dir, from), to, f.dir[from])]

\* Inodes that no name and no open handle refers to are gone.
Reclaim(f, handles) ==
  [f EXCEPT !.inodes = Restrict(f.inodes, DOMAIN f.inodes \cap (Range(f.dir) \cup handles))]

\* Bytes bincode writes for one token: u64 and u16 as they are, the enum tag as
\* a u32, a string as a u64 length and its bytes (keys and values are one
\* character long).
TokenBytes(tok) ==
  CASE tok.t = "u64" -> 8
    [] tok.t = "u16" -> 2
    [] tok.t = "tag" -> 4
    [] tok.t = "str" -> 9

RECURSIVE ByteLen(_)
ByteLen(bytes) ==
  IF bytes = <<>> THEN 0 ELSE TokenBytes(Head(bytes)) + ByteLen(Tail(bytes))

\* --------------------------------------------------------------- manifest
\* The low 16 bits of magic_number 0xDEAD_BEEF; read_manifest never compares it.
MagicNumber == 48879

FileManifestRecord(n, max, min) == [file_number |-> n, max_index |-> max, min_index |-> min]

SerializeManifestRecord(r) ==
  <<Tok("u16", r.file_number), Tok("u64", r.max_index), Tok("u64", r.min_index)>>

\* records.sort_by_key(|a| a.max_index): a stable sort
SortInsert(s, r) ==
  LET n == Cardinality({i \in DOMAIN s : s[i].max_index <= r.max_index})
  IN SubSeq(s, 1, n) \o <<r>> \o SubSeq(s, n + 1, Len(s))

RECURSIVE SortByMaxIndex(_)
SortByMaxIndex(records) ==
  IF records = <<>> THEN <<>>
  ELSE SortInsert(SortByMaxIndex(SubSeq(records, 1, Len(records) - 1)),
                  records[Len(records)])

RECURSIVE SerializeManifestRecords(_)
SerializeManifestRecords(records) ==
  IF records = <<>> THEN <<>>
  ELSE SerializeManifestRecord(Head(records)) \o SerializeManifestRecords(Tail(records))

\* Log::write_manifest: sort, write header and records to MANIFEST.new, sync,
\* rename over MANIFEST
WriteManifest(f, records) ==
  Let(SortByMaxIndex(records), LAMBDA sorted :
  Let(FileCreate(f, ManifestNewPath), LAMBDA f1 :
    FileRename([f1 EXCEPT !.inodes[f1.dir[ManifestNewPath]] =
                  <<Tok("u64", MagicNumber), Tok("u16", Len(sorted))>>
                  \o SerializeManifestRecords(sorted)],
               ManifestNewPath, ManifestPath)))

RECURSIVE DeserializeManifestRecords(_, _, _)
DeserializeManifestRecords(bytes, off, count) ==
  IF count = 0 THEN [ok |-> TRUE, records |-> <<>>]
  ELSE LET has(i, t) == off + i <= Len(bytes) /\ bytes[off + i].t = t
       IN IF has(1, "u16") /\ has(2, "u64") /\ has(3, "u64")
          THEN Let(DeserializeManifestRecords(bytes, off + 3, count - 1),
                   LAMBDA rest :
                     [ok |-> rest.ok,
                      records |-> <<FileManifestRecord(bytes[off + 1].v, bytes[off + 2].v,
                                                       bytes[off + 3].v)>> \o rest.records])
          ELSE [ok |-> FALSE, records |-> <<>>]

\* Log::read_manifest: no MANIFEST is an empty list; a header that does not
\* decode panics (unwrap); a record that does not decode is an error.
ReadManifest(f) ==
  IF ~Exists(f, ManifestPath) THEN [status |-> "ok", records |-> <<>>]
  ELSE LET bytes == Content(f, ManifestPath)
       IN IF ~(Len(bytes) >= 2 /\ bytes[1].t = "u64" /\ bytes[2].t = "u16")
          THEN [status |-> "panic", records |-> <<>>]
          ELSE Let(DeserializeManifestRecords(bytes, 2, bytes[2].v),
                   LAMBDA r :
                     IF r.ok THEN [status |-> "ok", records |-> SortByMaxIndex(r.records)]
                     ELSE [status |-> "err", records |-> <<>>])

\* ---------------------------------------------------------------- LogFile
\* file is the inode the File handle refers to; mode is how the handle was
\* opened: "rw" by OpenOptions read(true).write(true), "w" by File::create
MkLogFile(rec, map, inode) ==
  [manifest_record |-> rec, index_map |-> map, file |-> inode, mode |-> "rw"]

NoLogFile == MkLogFile(FileManifestRecord(0, 0, 0), EmptyMap, 0)

\* LogFile::create: File::create on the path <file_number> (to_string(), with
\* no ".log"), an empty index_map
LogFileCreate(f, rec) ==
  Let(FileCreate(f, CreatedFilePath(rec.file_number)), LAMBDA f1 :
    [fs |-> f1,
     log_file |-> [MkLogFile(rec, EmptyMap, f1.dir[CreatedFilePath(rec.file_number)])
                     EXCEPT !.mode = "w"]])

\* The scan loop of LogFile::open: record by record from offset off to the end
RECURSIVE ScanRecords(_, _, _)
ScanRecords(bytes, off, map) ==
  IF off = Len(bytes) THEN [ok |-> TRUE, index_map |-> map]
  ELSE Let(DeserializeRecord(bytes, off), LAMBDA d :
         IF d.ok
         THEN Let(MapInsert(map, d.record.index, off), LAMBDA m : ScanRecords(bytes, d.next, m))
         ELSE [ok |-> FALSE, index_map |-> map])

\* LogFile::open: <file_number>.log must exist and every record must decode
LogFileOpen(f, rec) ==
  IF ~Exists(f, LogFilePath(rec.file_number)) THEN [ok |-> FALSE, log_file |-> NoLogFile]
  ELSE Let(ScanRecords(Content(f, LogFilePath(rec.file_number)), 0, EmptyMap), LAMBDA s :
         IF s.ok
         THEN [ok |-> TRUE,
               log_file |-> MkLogFile(rec, s.index_map, f.dir[LogFilePath(rec.file_number)])]
         ELSE [ok |-> FALSE, log_file |-> NoLogFile])

\* LogFile::read: a map miss is ErrorKind::NotFound; else seek to the offset
\* and decode, a failure of which is Error::other (a handle that was opened
\* for writing only cannot be read)
LogFileRead(lf, f, index) ==
  IF index \notin DOMAIN lf.index_map
  THEN [ok |-> FALSE, record |-> NoRecord, err |-> "NotFound"]
  ELSE IF lf.mode = "w" THEN [ok |-> FALSE, record |-> NoRecord, err |-> "Other"]
  ELSE Let(DeserializeRecord(f.inodes[lf.file], lf.index_map[index]), LAMBDA d :
         [ok |-> d.ok, record |-> d.record, err |-> IF d.ok THEN "none" ELSE "Other"])

\* LogFileWrite on a file that is truncated before the record is written
LogFileWriteTruncates(lf, f, record) ==
  [fs |-> [f EXCEPT !.inodes[lf.file] = SerializeRecord(record)],
   log_file |-> [lf EXCEPT !.index_map = MapInsert(@, record.index, 0),
                           !.manifest_record.max_index = U64Max(@, record.index)]]

\* LogFile::write: append at the end of the file, remember the offset, raise
\* max_index
LogFileWrite(lf, f, record) ==
  LET offset == Len(f.inodes[lf.file])
  IN [fs |-> [f EXCEPT !.inodes[lf.file] = @ \o SerializeRecord(record)],
      log_file |-> [lf EXCEPT !.index_map = MapInsert(@, record.index, offset),
                              !.manifest_record.max_index = U64Max(@, record.index)]]

\* LogFile::size
LogFileSize(lf, f) == ByteLen(f.inodes[lf.file])

\* -------------------------------------------------------------------- Log
\* The log_files BTreeMap is a function from min_index to LogFile.
FirstKey(files) == CHOOSE x \in DOMAIN files : \A y \in DOMAIN files : x <= y
LastKey(files) == MaxOf(DOMAIN files)

RECURSIVE OpenLogFiles(_, _, _)
OpenLogFiles(f, records, files) ==
  IF records = <<>> THEN [ok |-> TRUE, log_files |-> files]
  ELSE Let(LogFileOpen(f, Head(records)), LAMBDA o :
         IF o.ok
         THEN Let(MapInsert(files, o.log_file.manifest_record.min_index, o.log_file),
                  LAMBDA fl : OpenLogFiles(f, Tail(records), fl))
         ELSE [ok |-> FALSE, log_files |-> files])

LogOpenFailed(st, f) ==
  [status |-> st, fs |-> f, log_files |-> EmptyMap, next_index |-> 0]

\* Log::open, the first load (the manifest is empty): 0.log is created (or
\* truncated) and the manifest written with the record {0, 0, 0}
LogOpenFirst(f) ==
  Let(WriteManifest(FileCreate(f, LogFilePath(0)), <<FileManifestRecord(0, 0, 0)>>),
      LAMBDA f1 :
        Let(LogFileOpen(f1, FileManifestRecord(0, 0, 0)), LAMBDA o :
          IF o.ok
          THEN [status |-> "ok", fs |-> f1,
                log_files |-> MapInsert(EmptyMap, o.log_file.manifest_record.min_index,
                                        o.log_file),
                next_index |-> 0]
          ELSE LogOpenFailed("err", f1)))

\* Log::open. Every file the manifest lists is opened and next_index is the
\* last file's manifest max_index + 1.
LogOpen(f) ==
  Let(ReadManifest(f), LAMBDA m :
    IF m.status # "ok" THEN LogOpenFailed(m.status, f)
    ELSE IF m.records = <<>> THEN LogOpenFirst(f)
    ELSE Let(OpenLogFiles(f, m.records, EmptyMap), LAMBDA o :
           IF o.ok
           THEN [status |-> "ok", fs |-> f, log_files |-> o.log_files,
                 next_index |-> o.log_files[LastKey(o.log_files)].manifest_record.max_index + 1]
           ELSE LogOpenFailed("err", f)))

\* Log::read: the file with the greatest min_index <= index reads the record;
\* with no such file the error is Error::other("Failed to find file for index")
LogRead(files, f, index) ==
  Let({k \in DOMAIN files : k <= index}, LAMBDA below :
    IF below = {} THEN [ok |-> FALSE, record |-> NoRecord, err |-> "Other"]
    ELSE LogFileRead(files[MaxOf(below)], f, index))

\* Log::write: the record takes next_index (fetch_add) and goes to the last
\* file, which is then synced
LogWrite(files, next, f, operation) ==
  IF DOMAIN files = {}
  THEN [ok |-> FALSE, fs |-> f, log_files |-> files, next_index |-> next, index |-> 0]
  ELSE Let(LogFileWrite(files[LastKey(files)], f, LogRecord(next, operation)), LAMBDA w :
         [ok |-> TRUE, fs |-> w.fs, log_files |-> [files EXCEPT ![LastKey(files)] = w.log_file],
          next_index |-> next + 1, index |-> next])

\* Log::total_size
RECURSIVE SumSizes(_, _, _)
SumSizes(files, ks, f) ==
  IF ks = {} THEN 0
  ELSE Let(CHOOSE x \in ks : TRUE, LAMBDA k :
         LogFileSize(files[k], f) + SumSizes(files, ks \ {k}, f))

LogTotalSize(files, f) == SumSizes(files, DOMAIN files, f)

\* The manifest records of the open files, in key order
RECURSIVE ManifestRecordsOf(_, _)
ManifestRecordsOf(files, ks) ==
  IF ks = {} THEN <<>>
  ELSE ManifestRecordsOf(files, ks \ {MaxOf(ks)}) \o <<files[MaxOf(ks)].manifest_record>>

\* impl Drop for Log: the manifest is written from the records in memory
LogDrop(files, f) == WriteManifest(f, ManifestRecordsOf(files, DOMAIN files))

\* Log::seal_last_file: the last file's max_index becomes next_index - 1; a
\* file with file_number + 1, min_index = that max_index + 1 and max_index =
\* u64::MAX is created and inserted under its min_index (replacing a file
\* that has the same min_index); the manifest is written. The - 1 and the
\* + 1 are u64 arithmetic.
LogSealLastFile(files, next, f, checks) ==
  IF DOMAIN files = {} THEN [status |-> "ok", fs |-> f, log_files |-> files]
  ELSE IF checks /\ Overflows(next - 1)
  THEN [status |-> "panic", fs |-> f, log_files |-> files]
  ELSE Let([files EXCEPT ![LastKey(files)].manifest_record.max_index = Wrapping(next - 1)],
           LAMBDA sealed :
    Let(sealed[LastKey(files)].manifest_record, LAMBDA last_record :
      IF checks /\ Overflows(last_record.max_index + 1)
      THEN [status |-> "panic", fs |-> f, log_files |-> sealed]
      ELSE Let(LogFileCreate(f, FileManifestRecord(last_record.file_number + 1, U64MAX,
                                                   Wrapping(last_record.max_index + 1))),
               LAMBDA c :
             Let(MapInsert(sealed, c.log_file.manifest_record.min_index, c.log_file),
                 LAMBDA fl :
                   [status |-> "ok",
                    fs |-> WriteManifest(c.fs, ManifestRecordsOf(fl, DOMAIN fl)),
                    log_files |-> fl]))))

\* ---------------------------------------------------------- iteration
\* A FileIterator walks a clone of index_map, a HashMap: the order of its
\* entries is whatever the hasher's random keys make it. An order gives, for
\* each file, the sequence in which its indexes come out.
HashOrders(files) ==
  {o \in [DOMAIN files -> UNION {Orders(DOMAIN files[k].index_map) : k \in DOMAIN files}] :
     \A k \in DOMAIN files : o[k] \in Orders(DOMAIN files[k].index_map)}

\* The records one FileIterator yields: seeks to each offset and decodes
\* (unwrap: a record that does not decode, or cannot be read through a
\* handle opened for writing only, panics)
RECURSIVE FileIteratorRecords(_, _, _)
FileIteratorRecords(lf, f, ord) ==
  IF ord = <<>> THEN [ok |-> TRUE, records |-> <<>>]
  ELSE IF lf.mode = "w" THEN [ok |-> FALSE, records |-> <<>>]
  ELSE Let(DeserializeRecord(f.inodes[lf.file], lf.index_map[Head(ord)]), LAMBDA d :
       Let(FileIteratorRecords(lf, f, Tail(ord)), LAMBDA rest :
         [ok |-> d.ok /\ rest.ok, records |-> <<d.record>> \o rest.records]))

\* LogIterator: new() takes a FileIterator on the first file and an iterator
\* over all the files, the first one included; next() moves on to the next
\* file when the current one is exhausted and ends at a file without records.
RECURSIVE LogIteratorFiles(_, _)
LogIteratorFiles(files, ks) ==
  IF ks = {} THEN <<>>
  ELSE Let(CHOOSE x \in ks : \A y \in ks : x <= y, LAMBDA k :
         IF DOMAIN files[k].index_map = {} THEN <<>>
         ELSE <<k>> \o LogIteratorFiles(files, ks \ {k}))

RECURSIVE ConcatRecords(_, _, _, _)
ConcatRecords(files, f, order, ks) ==
  IF ks = <<>> THEN [ok |-> TRUE, records |-> <<>>]
  ELSE Let(FileIteratorRecords(files[Head(ks)], f, order[Head(ks)]), LAMBDA r :
       Let(ConcatRecords(files, f, order, Tail(ks)), LAMBDA rest :
         [ok |-> r.ok /\ rest.ok, records |-> r.records \o rest.records]))

LogIter(files, f, order) ==
  ConcatRecords(files, f, order, <<FirstKey(files)>> \o LogIteratorFiles(files, DOMAIN files))

\* ---------------------------------------------------------------- KvStore
\* The replay loop of KvStore::open
RECURSIVE Replay(_, _)
Replay(map, records) ==
  IF records = <<>> THEN map
  ELSE Let(IF Head(records).operation.tag = TagRm
           THEN MapRemove(map, Head(records).operation.key)
           ELSE MapInsert(map, Head(records).operation.key, Head(records).index),
           LAMBDA m : Replay(m, Tail(records)))

KvStoreOpenFailed(st, f) ==
  [status |-> st, fs |-> f, log_files |-> EmptyMap, next_index |-> 0, mapping |-> EmptyMap]

\* KvStore::open after Log::open has returned lo: the mapping is rebuilt from
\* Log::iter, whose files come out in the given order
KvStoreOpenLog(lo, order) ==
  IF lo.status # "ok" THEN KvStoreOpenFailed(lo.status, lo.fs)
  ELSE Let(LogIter(lo.log_files, lo.fs, order), LAMBDA it :
         IF ~it.ok THEN KvStoreOpenFailed("panic", lo.fs)
         ELSE [status |-> "ok", fs |-> lo.fs, log_files |-> lo.log_files,
               next_index |-> lo.next_index, mapping |-> Replay(EmptyMap, it.records)])

\* What KvStore::open can return on directory f
KvStoreOpen(f) ==
  Let(LogOpen(f), LAMBDA lo : {KvStoreOpenLog(lo, order) : order \in HashOrders(lo.log_files)})

\* KvStoreSet with the mapping keeping the position of a key it already holds
KvStoreSetKeepsOld(files, next, map, f, key, value) ==
  Let(LogWrite(files, next, f, OpSet(key, value)), LAMBDA w :
    [ok |-> w.ok, fs |-> w.fs, log_files |-> w.log_files, next_index |-> w.next_index,
     mapping |-> IF w.ok /\ key \notin DOMAIN map THEN MapInsert(map, key, w.index) ELSE map])

\* KvStore::set: Log::write, then mapping.insert(key, position)
KvStoreSet(files, next, map, f, key, value) ==
  Let(LogWrite(files, next, f, OpSet(key, value)), LAMBDA w :
    [ok |-> w.ok, fs |-> w.fs, log_files |-> w.log_files, next_index |-> w.next_index,
     mapping |-> IF w.ok THEN MapInsert(map, key, w.index) ELSE map])

\* KvStore::remove: Log::write of the Rm record, then mapping.remove(key)
KvStoreRemove(files, next, map, f, key) ==
  Let(LogWrite(files, next, f, OpRm(key)), LAMBDA w :
    [ok |-> w.ok, fs |-> w.fs, log_files |-> w.log_files, next_index |-> w.next_index,
     mapping |-> IF w.ok THEN MapRemove(map, key) ELSE map])

\* The results of get: a value, None, or an error
Some(v) == [ok |-> TRUE, some |-> TRUE, value |-> v]
None == [ok |-> TRUE, some |-> FALSE, value |-> 0]
GetErr == [ok |-> FALSE, some |-> FALSE, value |-> 0]

\* KvStore::get: the position from the mapping, the record from the log; a
\* record that is not a Set is InvalidData
KvStoreGetAt(files, f, position) ==
  Let(LogRead(files, f, position), LAMBDA r :
    IF ~r.ok THEN GetErr
    ELSE IF r.record.operation.tag = TagSet THEN Some(r.record.operation.value)
    ELSE GetErr)

KvStoreGet(files, map, f, key) ==
  IF key \notin DOMAIN map THEN None ELSE KvStoreGetAt(files, f, map[key])

\* ------------------------------------------------------------- compaction
\* The closure KvStore::compact passes to Log::compact_log
CompactionPredicate(map, record) ==
  IF record.operation.tag = TagRm THEN record.operation.key \in DOMAIN map
  ELSE record.operation.key \notin DOMAIN map

\* LogFile::compact, up to its loop: <n>.log.tmp is opened for writing, created
\* if it is not there and left as it is if it is; writing starts at offset 0
CompactBegin(lf, f) ==
  Let(FileOpenOrCreate(f, TmpFilePath(lf.manifest_record.file_number)), LAMBDA f1 :
    [ok |-> TRUE, fs |-> f1, out |-> f1.dir[TmpFilePath(lf.manifest_record.file_number)],
     pos |-> 0])

\* One round of the loop: the record at index idx is read from the file
\* (unwrap: panics if it does not decode) and written to the output if the
\* predicate holds
CompactRecord(c, lf, idx, map) ==
  Let(DeserializeRecord(c.fs.inodes[lf.file], lf.index_map[idx]), LAMBDA d :
    IF ~d.ok \/ lf.mode = "w" THEN [c EXCEPT !.ok = FALSE]
    ELSE IF CompactionPredicate(map, d.record)
    THEN [c EXCEPT !.fs.inodes[c.out] = WriteAt(@, c.pos, SerializeRecord(d.record)),
                   !.pos = @ + Len(SerializeRecord(d.record))]
    ELSE c)

\* After the loop: rename(<n>.log, <n>.log.tmp), then File::open(<n>.log)
CompactEnd(c, lf) ==
  IF ~Exists(c.fs, LogFilePath(lf.manifest_record.file_number))
  THEN [status |-> "err", fs |-> c.fs, log_file |-> lf]
  ELSE Let(FileRename(c.fs, LogFilePath(lf.manifest_record.file_number),
                      TmpFilePath(lf.manifest_record.file_number)),
           LAMBDA f1 :
             IF Exists(f1, LogFilePath(lf.manifest_record.file_number))
             THEN [status |-> "ok", fs |-> f1,
                   log_file |-> [lf EXCEPT !.file =
                                   f1.dir[LogFilePath(lf.manifest_record.file_number)]]]
             ELSE [status |-> "err", fs |-> f1, log_file |-> lf])

RECURSIVE CompactLoop(_, _, _, _)
CompactLoop(c, lf, ord, map) ==
  IF ord = <<>> \/ ~c.ok THEN c
  ELSE Let(CompactRecord(c, lf, Head(ord), map), LAMBDA c1 : CompactLoop(c1, lf, Tail(ord), map))

\* LogFile::compact, the records visited in the order ord
LogFileCompact(lf, f, ord, map) ==
  Let(CompactBegin(lf, f), LAMBDA c0 :
  Let(CompactLoop(c0, lf, ord, map), LAMBDA c :
    IF ~c.ok THEN [status |-> "panic", fs |-> c.fs, log_file |-> lf]
    ELSE CompactEnd(c, lf)))

\* The loop of Log::compact_log over the files ks (in key order); the first
\* failure ends it
RECURSIVE CompactFiles(_, _, _, _, _)
CompactFiles(files, f, order, map, ks) ==
  IF ks = {} THEN [status |-> "ok", fs |-> f, log_files |-> files]
  ELSE Let(CHOOSE x \in ks : \A y \in ks : x <= y, LAMBDA k :
       Let(LogFileCompact(files[k], f, order[k], map), LAMBDA r :
         IF r.status # "ok" THEN [status |-> r.status, fs |-> r.fs, log_files |-> files]
         ELSE Let([files EXCEPT ![k] = r.log_file], LAMBDA fl :
                CompactFiles(fl, r.fs, order, map, ks \ {k}))))

\* Log::compact_log under KvStore::compact: every file is compacted, then the
\* manifest is written
KvStoreCompact(files, map, f, order) ==
  Let(CompactFiles(files, f, order, map, DOMAIN files), LAMBDA r :
    IF r.status # "ok" THEN r
    ELSE [r EXCEPT !.fs = WriteManifest(r.fs, ManifestRecordsOf(r.log_files, DOMAIN r.log_files))])

\* ------------------------------------------------------------------ state
VARIABLES
  fs,          \* the store directory: names, inodes and their content
  status,      \* "closed": no process has the store open; "open": one has
  log_files,   \* Log.log_files
  next_index,  \* Log.next_index
  mapping,     \* State.mapping of the KvStore
  written,     \* history: every record Log::write appended, in order
  last,        \* history: the last operation and its result
  before,      \* history: what the engine held when it last closed or compacted
  compactions, \* history: how many times KvStore::compact has been called
  opens,       \* history: how many times the store has been opened
  threads,     \* what each thread that holds a clone of the KvStore is doing
  queue,       \* SharedQueueThreadPool.queue: the messages pushed and not popped
  workers,     \* the threads of SharedQueueThreadPool, each in thread_main
  pool,        \* the SharedQueueThreadPool: alive, in drop, or dropped
  jobs,        \* history: the jobs passed to spawn and what became of them
  server,      \* the KvsServer process: its accept loop
  conns,       \* the connections, each in process_connection on its own thread
  engine,      \* KvsServer.engine: which connection holds the Mutex
  overflow_checks \* the process's build: integer overflow panics (TRUE) or wraps

storeVars ==
  <<fs, status, log_files, next_index, mapping, written, last, before, compactions, opens,
    threads, overflow_checks>>

poolVars == <<queue, workers, pool, jobs>>

serverVars == <<server, conns, engine>>

vars == <<storeVars, poolVars, serverVars>>

Handles(files) == {files[k].file : k \in DOMAIN files}

View(files, map, f) == [k \in Keys |-> KvStoreGet(files, map, f, k)]

Snapshot(by) == [by |-> by, mapping |-> mapping, view |-> View(log_files, mapping, fs),
                 size |-> LogTotalSize(log_files, fs)]

NoSnapshot == [by |-> "none", mapping |-> EmptyMap, view |-> [k \in Keys |-> None], size |-> 0]

Did(op, key, value, ok, res) ==
  [op |-> op, key |-> key, value |-> value, ok |-> ok, res |-> res]

\* A thread that is between two calls. In a call, pc says where the thread is:
\* "set_insert" and "rm_remove" after Log::write has returned, "get_read" with
\* the mapping locked and the position looked up, "compact" inside
\* Log::compact_log with log_files locked; "panicked" once it has unwound.
Idle ==
  [pc |-> "idle", key |-> 0, value |-> 0, position |-> 0, floor |-> -1,
   order |-> <<>>, todo |-> {}, ord |-> <<>>, out |-> 0, pos |-> 0,
   from |-> "idle", poisons |-> {}]

\* SharedQueueThreadPool::new(NumWorkers): an empty queue and NumWorkers
\* threads, each at the top of the loop of thread_main
Workers == 1..NumWorkers

InitPool ==
  /\ queue = <<>>
  /\ workers = [w \in Workers |-> [pc |-> "pop", job |-> 0, caught |-> FALSE]]
  /\ pool = [state |-> "alive", threads |-> NumWorkers]
  /\ jobs = <<>>

\* KvsServer::new and the bind of run: no connection yet, the engine Mutex
\* free. info says whether the build keeps slog's info! statements.
Conns == 1..NumConns

NoRequest == [kind |-> "none", key |-> 0, value |-> 0]
NoResult == [ok |-> TRUE, some |-> FALSE, value |-> 0, what |-> 0]
NoResponse == [kind |-> "none", variant |-> "Ok", some |-> FALSE, value |-> 0, what |-> 0]

\* pending and erred are history: a request has been decoded and not answered;
\* the last response sent was an Error
NoConn ==
  [pc |-> "none", request |-> NoRequest, result |-> NoResult, response |-> NoResponse,
   pending |-> FALSE, erred |-> FALSE]

InitServer(info) ==
  /\ server = [accepting |-> TRUE, aborted |-> FALSE, info |-> info,
               failed |-> FALSE, accepted_after |-> FALSE, served_after |-> FALSE]
  /\ conns = [c \in Conns |-> NoConn]
  /\ engine = 0

InitStore ==
  /\ fs = EmptyFs
  /\ status = "closed"
  /\ log_files = EmptyMap
  /\ next_index = 0
  /\ mapping = EmptyMap
  /\ written = <<>>
  /\ last = Did("none", 0, 0, TRUE, None)
  /\ before = NoSnapshot
  /\ compactions = 0
  /\ opens = 0
  /\ threads = [t \in Threads |-> Idle]

\* The build profile: with overflow checks (cargo's dev profile) an integer
\* overflow panics; without them (the release profile) it wraps
InitProfile(checks) == overflow_checks = checks

Init == InitStore /\ InitPool /\ InitServer(TRUE) /\ InitProfile(TRUE)

\* The process ends without running any destructor
Killed(f) ==
  /\ fs' = Reclaim(f, {})
  /\ status' = "closed"
  /\ log_files' = EmptyMap
  /\ next_index' = 0
  /\ mapping' = EmptyMap

\* A process opens the store: KvStore::open
Open ==
  /\ status = "closed"
  /\ opens < MaxOpens
  /\ opens' = opens + 1
  /\ \E r \in KvStoreOpen(fs) :
       /\ fs' = Reclaim(r.fs, Handles(r.log_files))
       /\ status' = IF r.status = "ok" THEN "open" ELSE "closed"
       /\ log_files' = r.log_files
       /\ next_index' = r.next_index
       /\ mapping' = r.mapping
       /\ last' = Did("open", 0, 0, r.status = "ok", None)
  /\ UNCHANGED <<written, before, compactions, threads>>
  /\ UNCHANGED <<poolVars, serverVars, overflow_checks>>

\* KvStore::set(key, value)
Set(key, value) ==
  /\ status = "open"
  /\ Len(written) < MaxWrites
  /\ \E r \in {KvStoreSet(log_files, next_index, mapping, fs, key, value)} :
       /\ fs' = r.fs
       /\ log_files' = r.log_files
       /\ next_index' = r.next_index
       /\ mapping' = r.mapping
       /\ written' = IF r.ok THEN Append(written, LogRecord(next_index, OpSet(key, value)))
                     ELSE written
       /\ last' = Did("set", key, value, r.ok, None)
  /\ before' = NoSnapshot
  /\ UNCHANGED <<status, compactions, opens, threads>>
  /\ UNCHANGED <<poolVars, serverVars, overflow_checks>>

\* KvStore::remove(key)
Remove(key) ==
  /\ status = "open"
  /\ Len(written) < MaxWrites
  /\ \E r \in {KvStoreRemove(log_files, next_index, mapping, fs, key)} :
       /\ fs' = r.fs
       /\ log_files' = r.log_files
       /\ next_index' = r.next_index
       /\ mapping' = r.mapping
       /\ written' = IF r.ok THEN Append(written, LogRecord(next_index, OpRm(key)))
                     ELSE written
       /\ last' = Did("remove", key, 0, r.ok, None)
  /\ before' = NoSnapshot
  /\ UNCHANGED <<status, compactions, opens, threads>>
  /\ UNCHANGED <<poolVars, serverVars, overflow_checks>>

\* KvStore::get(key)
Get(key) ==
  /\ status = "open"
  /\ last' = Did("get", key, 0, TRUE, KvStoreGet(log_files, mapping, fs, key))
  /\ UNCHANGED <<fs, status, log_files, next_index, mapping, written, before, compactions, opens,
                 threads>>
  /\ UNCHANGED <<poolVars, serverVars, overflow_checks>>

\* KvStore::compact; a panic inside it ends the process
Compact ==
  /\ status = "open"
  /\ compactions < MaxCompactions
  /\ \E order \in HashOrders(log_files) :
       \E r \in {KvStoreCompact(log_files, mapping, fs, order)} :
          /\ IF r.status = "panic"
             THEN Killed(r.fs)
             ELSE /\ fs' = Reclaim(r.fs, Handles(r.log_files))
                  /\ log_files' = r.log_files
                  /\ UNCHANGED <<status, next_index, mapping>>
          /\ last' = Did("compact", 0, 0, r.status = "ok", None)
  /\ before' = Snapshot("compact")
  /\ compactions' = compactions + 1
  /\ UNCHANGED <<written, opens, threads>>
  /\ UNCHANGED <<poolVars, serverVars, overflow_checks>>

\* The last clone of the KvStore is dropped: Log's Drop writes the manifest
Drop ==
  /\ status = "open"
  /\ fs' = Reclaim(LogDrop(log_files, fs), {})
  /\ status' = "closed"
  /\ log_files' = EmptyMap
  /\ next_index' = 0
  /\ mapping' = EmptyMap
  /\ last' = Did("drop", 0, 0, TRUE, None)
  /\ before' = Snapshot("drop")
  /\ compactions' = compactions
  /\ UNCHANGED <<written, opens, threads>>
  /\ UNCHANGED <<poolVars, serverVars, overflow_checks>>

\* The process is killed between two operations
Crash ==
  /\ status = "open"
  /\ Killed(fs)
  /\ last' = Did("kill", 0, 0, TRUE, None)
  /\ before' = Snapshot("kill")
  /\ compactions' = compactions
  /\ UNCHANGED <<written, opens, threads>>
  /\ UNCHANGED <<poolVars, serverVars, overflow_checks>>

Next ==
  \/ Open
  \/ \E k \in Keys, v \in Values : Set(k, v)
  \/ \E k \in Keys : Remove(k)
  \/ \E k \in Keys : Get(k)
  \/ Compact
  \/ Drop
  \/ Crash

Spec == Init /\ [][Next]_vars

\* One process that opens a new directory and works on it, with no close, no
\* kill and no compaction
NextSession ==
  \/ Open
  \/ \E k \in Keys, v \in Values : Set(k, v)
  \/ \E k \in Keys : Remove(k)
  \/ \E k \in Keys : Get(k)

SpecSession == Init /\ [][NextSession]_vars

\* ------------------------------------------------- a damaged directory
\* What can happen to the directory while no process has the store open: the
\* MANIFEST is deleted, or it is cut short (a copy that did not finish, a
\* disk that filled up). Log::read_manifest meets the first as NotFound and
\* the second as a header or a record that does not decode.
ManifestDeleted ==
  /\ status = "closed"
  /\ Exists(fs, ManifestPath)
  /\ fs' = Reclaim([fs EXCEPT !.dir = MapRemove(@, ManifestPath)], {})
  /\ last' = Did("damage", 0, 0, TRUE, None)
  /\ UNCHANGED <<status, log_files, next_index, mapping, written, before, compactions, opens,
                 threads>>
  /\ UNCHANGED <<poolVars, serverVars, overflow_checks>>

ManifestTruncated(n) ==
  /\ status = "closed"
  /\ Exists(fs, ManifestPath)
  /\ n < Len(Content(fs, ManifestPath))
  /\ fs' = [fs EXCEPT !.inodes[fs.dir[ManifestPath]] = SubSeq(@, 1, n)]
  /\ last' = Did("damage", 0, 0, TRUE, None)
  /\ UNCHANGED <<status, log_files, next_index, mapping, written, before, compactions, opens,
                 threads>>
  /\ UNCHANGED <<poolVars, serverVars, overflow_checks>>

\* The longest MANIFEST a store of MaxWrites records writes: the header's two
\* fields and one record of three fields
ManifestTokens == 0..4

NextDamage ==
  \/ Open
  \/ \E k \in Keys, v \in Values : Set(k, v)
  \/ \E k \in Keys : Remove(k)
  \/ \E k \in Keys : Get(k)
  \/ Drop
  \/ Crash
  \/ ManifestDeleted
  \/ \E n \in ManifestTokens : ManifestTruncated(n)

SpecDamage == Init /\ [][NextDamage]_vars

\* ------------------------------------- a process killed in write_manifest
\* The segments a log can have: the first one and one more for each rotation
MaxSegments == 1 + MaxRotations

\* Log::write_manifest step by step. The process, or the machine, can stop
\* after any number of the steps; what was written to a file and not yet
\* synced can then be lost from its end.
RECURSIVE RecordSteps(_)
RecordSteps(n) == IF n = 0 THEN <<>> ELSE <<"record">> \o RecordSteps(n - 1)

\* write_manifest with the rename before the sync
WriteManifestStepsRenameFirst(records) ==
  <<"create", "header">> \o RecordSteps(Len(records)) \o <<"rename", "sync">>

\* The steps of write_manifest in the order of the code: File::create, the
\* header, each record, sync_all, rename
WriteManifestSteps(records) ==
  <<"create", "header">> \o RecordSteps(Len(records)) \o <<"sync", "rename">>

\* w is the file being written: its inode, how many records it has, whether
\* it is synced
ManifestStep(w, sorted, step) ==
  CASE step = "create" ->
         Let(FileCreate(w.fs, ManifestNewPath), LAMBDA f1 :
           [w EXCEPT !.fs = f1, !.inode = f1.dir[ManifestNewPath], !.synced = FALSE])
    [] step = "header" ->
         [w EXCEPT !.fs.inodes[w.inode] =
                     @ \o <<Tok("u64", MagicNumber), Tok("u16", Len(sorted))>>]
    [] step = "record" ->
         [w EXCEPT !.fs.inodes[w.inode] = @ \o SerializeManifestRecord(sorted[w.count + 1]),
                   !.count = @ + 1]
    [] step = "sync" -> [w EXCEPT !.synced = TRUE]
    [] step = "rename" -> [w EXCEPT !.fs = FileRename(w.fs, ManifestNewPath, ManifestPath)]

RECURSIVE ManifestSteps(_, _, _, _)
ManifestSteps(w, sorted, steps, n) ==
  IF n = 0 THEN w
  ELSE Let(ManifestStep(w, sorted, Head(steps)), LAMBDA w1 :
         ManifestSteps(w1, sorted, Tail(steps), n - 1))

\* The directories a stop after n steps of write_manifest(records) can leave
WriteManifestStopped(f, records, n) ==
  Let(ManifestSteps([fs |-> f, inode |-> 0, count |-> 0, synced |-> TRUE],
                    SortByMaxIndex(records), WriteManifestSteps(records), n),
      LAMBDA w :
        IF w.synced THEN {w.fs}
        ELSE {[w.fs EXCEPT !.inodes[w.inode] = SubSeq(@, 1, kept)] :
                kept \in 0..Len(w.fs.inodes[w.inode])})

\* The process is killed inside the write_manifest of Log's Drop
DropKilled(n) ==
  /\ status = "open"
  /\ n \in 0..Len(WriteManifestSteps(ManifestRecordsOf(log_files, DOMAIN log_files)))
  /\ \E f \in WriteManifestStopped(fs, ManifestRecordsOf(log_files, DOMAIN log_files), n) :
       Killed(f)
  /\ last' = Did("kill_wm", n, 0, TRUE, None)
  /\ before' = Snapshot("kill")
  /\ UNCHANGED <<written, compactions, opens, threads>>
  /\ UNCHANGED <<poolVars, serverVars, overflow_checks>>

\* The process is killed inside the write_manifest of the first load of
\* Log::open, after File::create(0.log)
OpenKilled(n) ==
  /\ status = "closed"
  /\ opens < MaxOpens
  /\ ReadManifest(fs).status = "ok"
  /\ ReadManifest(fs).records = <<>>
  /\ n \in 0..Len(WriteManifestSteps(<<FileManifestRecord(0, 0, 0)>>))
  /\ \E f \in WriteManifestStopped(FileCreate(fs, LogFilePath(0)),
                                    <<FileManifestRecord(0, 0, 0)>>, n) :
       Killed(f)
  /\ opens' = opens + 1
  /\ last' = Did("kill_wm", n, 0, TRUE, None)
  /\ UNCHANGED <<written, before, compactions, threads>>
  /\ UNCHANGED <<poolVars, serverVars, overflow_checks>>

NextManifest ==
  \/ Open
  \/ \E k \in Keys, v \in Values : Set(k, v)
  \/ \E k \in Keys : Remove(k)
  \/ \E k \in Keys : Get(k)
  \/ Drop
  \/ Crash
  \/ \E n \in 0..(MaxSegments + 4) : DropKilled(n)
  \/ \E n \in 0..(MaxSegments + 4) : OpenKilled(n)

SpecManifest == Init /\ [][NextManifest]_vars

\* ---------------------------------------------- a write that fails
\* The ways the I/O of Log::write can fail on a record: serialize_into fails
\* after it has written some of the record's fields (or the seek before it
\* fails, with none written), or sync_data fails after the whole record was
\* written.
IoFailures(record) ==
  {[kind |-> "append", wrote |-> n] : n \in 0..(Len(SerializeRecord(record)) - 1)}
    \cup {[kind |-> "sync", wrote |-> Len(SerializeRecord(record))]}

\* LogWriteFails with the fetch_add undone
LogWriteFailsGivesBack(files, next, f, operation, io) ==
  IF io.kind = "append"
  THEN [ok |-> FALSE,
        fs |-> [f EXCEPT !.inodes[files[LastKey(files)].file] =
                  @ \o SubSeq(SerializeRecord(LogRecord(next, operation)), 1, io.wrote)],
        log_files |-> files, next_index |-> next, index |-> next]
  ELSE Let(LogFileWrite(files[LastKey(files)], f, LogRecord(next, operation)), LAMBDA w :
         [ok |-> FALSE, fs |-> w.fs,
          log_files |-> [files EXCEPT ![LastKey(files)] = w.log_file],
          next_index |-> next, index |-> next])

\* Log::write when its I/O fails: next_index has been taken (fetch_add) before
\* LogFile::write; a failed append returns before index_map and max_index are
\* touched; a failed sync_data returns after LogFile::write has finished
LogWriteFails(files, next, f, operation, io) ==
  IF io.kind = "append"
  THEN [ok |-> FALSE,
        fs |-> [f EXCEPT !.inodes[files[LastKey(files)].file] =
                  @ \o SubSeq(SerializeRecord(LogRecord(next, operation)), 1, io.wrote)],
        log_files |-> files, next_index |-> next + 1, index |-> next]
  ELSE Let(LogFileWrite(files[LastKey(files)], f, LogRecord(next, operation)), LAMBDA w :
         [ok |-> FALSE, fs |-> w.fs,
          log_files |-> [files EXCEPT ![LastKey(files)] = w.log_file],
          next_index |-> next + 1, index |-> next])

\* In the one session of a new directory, the writes that have failed: each
\* took an index and none is in the history of the records appended
FailedWrites == next_index - Len(written)

\* KvStore::set and KvStore::remove when Log::write returns Err: the ? returns
\* it before the mapping is locked
SetFails(key, value, io) ==
  /\ status = "open"
  /\ FailedWrites < MaxFailures
  /\ io \in IoFailures(LogRecord(next_index, OpSet(key, value)))
  /\ \E w \in {LogWriteFails(log_files, next_index, fs, OpSet(key, value), io)} :
       /\ fs' = w.fs
       /\ log_files' = w.log_files
       /\ next_index' = w.next_index
       /\ last' = Did("set", key, value, w.ok, None)
  /\ before' = NoSnapshot
  /\ UNCHANGED <<status, mapping, written, compactions, opens, threads>>
  /\ UNCHANGED <<poolVars, serverVars, overflow_checks>>

RemoveFails(key, io) ==
  /\ status = "open"
  /\ FailedWrites < MaxFailures
  /\ io \in IoFailures(LogRecord(next_index, OpRm(key)))
  /\ \E w \in {LogWriteFails(log_files, next_index, fs, OpRm(key), io)} :
       /\ fs' = w.fs
       /\ log_files' = w.log_files
       /\ next_index' = w.next_index
       /\ last' = Did("remove", key, 0, w.ok, None)
  /\ before' = NoSnapshot
  /\ UNCHANGED <<status, mapping, written, compactions, opens, threads>>
  /\ UNCHANGED <<poolVars, serverVars, overflow_checks>>

\* The fields bincode writes for a record: at most four
RecordTokens == 0..4

IoKinds == {"append", "sync"}

\* One process that opens a new directory and writes to it, some of the
\* writes failing
NextIo ==
  \/ Open
  \/ \E k \in Keys, v \in Values : Set(k, v)
  \/ \E k \in Keys : Remove(k)
  \/ \E k \in Keys, v \in Values, kind \in IoKinds, n \in RecordTokens :
       SetFails(k, v, [kind |-> kind, wrote |-> n])
  \/ \E k \in Keys, kind \in IoKinds, n \in RecordTokens :
       RemoveFails(k, [kind |-> kind, wrote |-> n])

SpecIo == Init /\ [][NextIo]_vars

\* ------------------------------------------------------------- rotation
\* Log::seal_last_file has no caller in the crate; the process calls it
\* here between two operations of the engine. A panic ends the process.
Rotate ==
  /\ status = "open"
  /\ log_files[LastKey(log_files)].manifest_record.file_number < MaxRotations
  /\ \E r \in {LogSealLastFile(log_files, next_index, fs, overflow_checks)} :
       /\ IF r.status = "panic"
          THEN Killed(r.fs)
          ELSE /\ fs' = Reclaim(r.fs, Handles(r.log_files))
               /\ log_files' = r.log_files
               /\ UNCHANGED <<status, next_index, mapping>>
       /\ last' = Did("rotate", 0, 0, r.status = "ok", None)
  /\ before' = NoSnapshot
  /\ UNCHANGED <<written, compactions, opens, threads>>
  /\ UNCHANGED <<poolVars, serverVars, overflow_checks>>

NextRotate ==
  \/ Open
  \/ \E k \in Keys, v \in Values : Set(k, v)
  \/ \E k \in Keys : Remove(k)
  \/ \E k \in Keys : Get(k)
  \/ Rotate
  \/ Drop
  \/ Crash

\* The engine under either build profile
InitEitherProfile ==
  InitStore /\ InitPool /\ InitServer(TRUE) /\ \E checks \in BOOLEAN : InitProfile(checks)

SpecRotate == InitEitherProfile /\ [][NextRotate]_vars

\* ------------------------------------------------------------- threads
\* Threads call get, set, remove and compact on clones of one KvStore. The
\* clones share one State: the mapping behind its Mutex ("index") and the
\* Log, whose log_files sit behind their own Mutex ("segments"). A step of a
\* thread is what it does from one lock acquisition to the next.

\* The Mutexes a running thread holds
Held(th) ==
  CASE th.pc = "get_read" -> {"index"}
    [] th.pc = "compact" -> {"segments"}
    [] th.pc = "write_sync" -> {"segments"}
    [] OTHER -> {}

Locked(l) == \E t \in Threads : l \in Held(threads[t])

\* A thread that panics with a MutexGuard alive poisons the Mutex
Poisoned(l) == \E t \in Threads : threads[t].pc = "panicked" /\ l \in threads[t].poisons

\* lock().unwrap() on a poisoned Mutex, or any other panic: the thread unwinds
Panic(t, held) ==
  threads' = [threads EXCEPT ![t] = [@ EXCEPT !.pc = "panicked", !.from = threads[t].pc,
                                               !.poisons = held]]

\* The greatest record index of a set(key, _) that has returned Ok, -1 if none
Unreturned ==
  {threads[t].position : t \in {u \in Threads : "set_insert" \in {threads[u].pc, threads[u].from}}}

ReturnedFloor(key) ==
  MaxOf({-1} \cup {written[i].index : i \in {j \in DOMAIN written :
                                                /\ written[j].operation.key = key
                                                /\ written[j].operation.tag = TagSet
                                                /\ written[j].index \notin Unreturned}})

\* KvStore::set, first half: Log::write locks log_files, appends and unlocks
SetWrite(t, key, value) ==
  /\ status = "open"
  /\ threads[t].pc = "idle"
  /\ Len(written) < MaxWrites
  /\ ~Locked("segments")
  /\ IF Poisoned("segments")
     THEN /\ Panic(t, {})
          /\ UNCHANGED <<fs, log_files, next_index, written, last>>
     ELSE \E w \in {LogWrite(log_files, next_index, fs, OpSet(key, value))} :
            /\ fs' = w.fs
            /\ log_files' = w.log_files
            /\ next_index' = w.next_index
            /\ IF w.ok
               THEN /\ written' = Append(written, LogRecord(w.index, OpSet(key, value)))
                    /\ threads' = [threads EXCEPT ![t] =
                                     [Idle EXCEPT !.pc = "set_insert", !.key = key,
                                                  !.value = value, !.position = w.index]]
                    /\ last' = last
               ELSE /\ last' = Did("set", key, value, FALSE, None)
                    /\ UNCHANGED <<written, threads>>
  /\ UNCHANGED <<status, mapping, before, compactions, opens>>
  /\ UNCHANGED <<poolVars, serverVars, overflow_checks>>

\* KvStore::set, second half: the mapping is locked for insert(key, position)
SetInsert(t) ==
  /\ threads[t].pc = "set_insert"
  /\ ~Locked("index")
  /\ IF Poisoned("index")
     THEN Panic(t, {}) /\ UNCHANGED <<mapping, last>>
     ELSE /\ mapping' = MapInsert(mapping, threads[t].key, threads[t].position)
          /\ threads' = [threads EXCEPT ![t] = Idle]
          /\ last' = Did("set", threads[t].key, threads[t].value, TRUE, None)
  /\ UNCHANGED <<fs, status, log_files, next_index, written, before, compactions, opens>>
  /\ UNCHANGED <<poolVars, serverVars, overflow_checks>>

\* KvStore::remove, first half: Log::write of the Rm record
RemoveWrite(t, key) ==
  /\ status = "open"
  /\ threads[t].pc = "idle"
  /\ Len(written) < MaxWrites
  /\ ~Locked("segments")
  /\ IF Poisoned("segments")
     THEN /\ Panic(t, {})
          /\ UNCHANGED <<fs, log_files, next_index, written, last>>
     ELSE \E w \in {LogWrite(log_files, next_index, fs, OpRm(key))} :
            /\ fs' = w.fs
            /\ log_files' = w.log_files
            /\ next_index' = w.next_index
            /\ IF w.ok
               THEN /\ written' = Append(written, LogRecord(w.index, OpRm(key)))
                    /\ threads' = [threads EXCEPT ![t] =
                                     [Idle EXCEPT !.pc = "rm_remove", !.key = key,
                                                  !.position = w.index]]
                    /\ last' = last
               ELSE /\ last' = Did("remove", key, 0, FALSE, None)
                    /\ UNCHANGED <<written, threads>>
  /\ UNCHANGED <<status, mapping, before, compactions, opens>>
  /\ UNCHANGED <<poolVars, serverVars, overflow_checks>>

\* KvStore::remove, second half: the mapping is locked for remove(key)
RemoveFromMapping(t) ==
  /\ threads[t].pc = "rm_remove"
  /\ ~Locked("index")
  /\ IF Poisoned("index")
     THEN Panic(t, {}) /\ UNCHANGED <<mapping, last>>
     ELSE /\ mapping' = MapRemove(mapping, threads[t].key)
          /\ threads' = [threads EXCEPT ![t] = Idle]
          /\ last' = Did("remove", threads[t].key, 0, TRUE, None)
  /\ UNCHANGED <<fs, status, log_files, next_index, written, before, compactions, opens>>
  /\ UNCHANGED <<poolVars, serverVars, overflow_checks>>

\* KvStore::get, first half: the mapping is locked and the key looked up. The
\* MutexGuard is a temporary of the match scrutinee: with Some(position) it
\* stays alive over Log::read; with None the call returns at once.
GetLock(t, key) ==
  /\ status = "open"
  /\ threads[t].pc = "idle"
  /\ ~Locked("index")
  /\ IF Poisoned("index")
     THEN Panic(t, {}) /\ last' = last
     ELSE IF key \notin DOMAIN mapping
     THEN /\ last' = Did("get", key, 0, TRUE, None)
          /\ threads' = threads
     ELSE /\ threads' = [threads EXCEPT ![t] =
                           [Idle EXCEPT !.pc = "get_read", !.key = key,
                                        !.position = mapping[key],
                                        !.floor = ReturnedFloor(key)]]
          /\ last' = last
  /\ UNCHANGED <<fs, status, log_files, next_index, mapping, written, before, compactions, opens>>
  /\ UNCHANGED <<poolVars, serverVars, overflow_checks>>

\* KvStore::get, second half: Log::read locks log_files, with the mapping
\* still locked
GetRead(t) ==
  /\ threads[t].pc = "get_read"
  /\ ~Locked("segments")
  /\ IF Poisoned("segments")
     THEN Panic(t, {"index"}) /\ last' = last
     ELSE /\ last' = Did("get", threads[t].key, 0, TRUE,
                         KvStoreGetAt(log_files, fs, threads[t].position))
          /\ threads' = [threads EXCEPT ![t] = Idle]
  /\ UNCHANGED <<fs, status, log_files, next_index, mapping, written, before, compactions, opens>>
  /\ UNCHANGED <<poolVars, serverVars, overflow_checks>>

\* Log::compact_log goes on to the next file of th.todo: LogFile::compact
\* opens its output; with no file left the manifest is written and the call
\* returns Ok
CompactNextFile(t, th, files, f) ==
  IF th.todo = {}
  THEN /\ fs' = Reclaim(WriteManifest(f, ManifestRecordsOf(files, DOMAIN files)),
                        Handles(files))
       /\ threads' = [threads EXCEPT ![t] = Idle]
       /\ last' = Did("compact", 0, 0, TRUE, None)
  ELSE \E c \in {CompactBegin(files[FirstKey(Restrict(files, th.todo))], f)} :
         /\ fs' = c.fs
         /\ threads' = [threads EXCEPT ![t] =
                          [th EXCEPT !.ord = th.order[FirstKey(Restrict(files, th.todo))],
                                     !.out = c.out, !.pos = c.pos]]
         /\ last' = last

\* KvStore::compact: Log::compact_log locks log_files and keeps them locked
\* to its end
CompactLock(t) ==
  /\ status = "open"
  /\ threads[t].pc = "idle"
  /\ compactions < MaxCompactions
  /\ ~Locked("segments")
  /\ IF Poisoned("segments")
     THEN Panic(t, {}) /\ UNCHANGED <<fs, last, compactions>>
     ELSE /\ \E order \in HashOrders(log_files) :
               CompactNextFile(t, [Idle EXCEPT !.pc = "compact", !.order = order,
                                               !.todo = DOMAIN log_files],
                               log_files, fs)
          /\ compactions' = compactions + 1
  /\ UNCHANGED <<status, log_files, next_index, mapping, written, before, opens>>
  /\ UNCHANGED <<poolVars, serverVars, overflow_checks>>

\* One round of the loop of LogFile::compact: FileIterator::next decodes the
\* record (unwrap), then the predicate locks the mapping, with log_files locked
CompactPredicateStep(t) ==
  /\ threads[t].pc = "compact"
  /\ threads[t].ord # <<>>
  /\ \E c \in {CompactRecord([ok |-> TRUE, fs |-> fs, out |-> threads[t].out,
                              pos |-> threads[t].pos],
                             log_files[FirstKey(Restrict(log_files, threads[t].todo))],
                             Head(threads[t].ord), mapping)} :
       /\ ~c.ok \/ ~Locked("index")
       /\ IF ~c.ok \/ Poisoned("index")
          THEN Panic(t, {"segments"}) /\ fs' = fs
          ELSE /\ fs' = c.fs
               /\ threads' = [threads EXCEPT ![t].ord = Tail(@), ![t].pos = c.pos]
  /\ UNCHANGED <<status, log_files, next_index, mapping, written, last, before, compactions, opens>>
  /\ UNCHANGED <<poolVars, serverVars, overflow_checks>>

\* The end of LogFile::compact: the rename and the reopen. An error ends
\* Log::compact_log with the manifest unwritten.
CompactFileEnd(t) ==
  /\ threads[t].pc = "compact"
  /\ threads[t].ord = <<>>
  /\ \E k \in {FirstKey(Restrict(log_files, threads[t].todo))} :
       \E r \in {CompactEnd([ok |-> TRUE, fs |-> fs, out |-> threads[t].out,
                             pos |-> threads[t].pos], log_files[k])} :
         IF r.status # "ok"
         THEN /\ fs' = Reclaim(r.fs, Handles(log_files))
              /\ log_files' = log_files
              /\ threads' = [threads EXCEPT ![t] = Idle]
              /\ last' = Did("compact", 0, 0, FALSE, None)
         ELSE /\ log_files' = [log_files EXCEPT ![k] = r.log_file]
              /\ CompactNextFile(t, [threads[t] EXCEPT !.todo = @ \ {k}],
                                 [log_files EXCEPT ![k] = r.log_file], r.fs)
  /\ UNCHANGED <<status, next_index, mapping, written, before, compactions, opens>>
  /\ UNCHANGED <<poolVars, serverVars, overflow_checks>>

NextThreads ==
  \/ Open
  \/ \E t \in Threads, k \in Keys, v \in Values : SetWrite(t, k, v)
  \/ \E t \in Threads : SetInsert(t)
  \/ \E t \in Threads, k \in Keys : RemoveWrite(t, k)
  \/ \E t \in Threads : RemoveFromMapping(t)
  \/ \E t \in Threads, k \in Keys : GetLock(t, k)
  \/ \E t \in Threads : GetRead(t)
  \/ \E t \in Threads : CompactLock(t)
  \/ \E t \in Threads : CompactPredicateStep(t)
  \/ \E t \in Threads : CompactFileEnd(t)

SpecThreads == Init /\ [][NextThreads]_vars

\* Threads that call get, set and remove on clones of one KvStore, with no
\* compaction
NextGetSet ==
  \/ Open
  \/ \E t \in Threads, k \in Keys, v \in Values : SetWrite(t, k, v)
  \/ \E t \in Threads : SetInsert(t)
  \/ \E t \in Threads, k \in Keys : RemoveWrite(t, k)
  \/ \E t \in Threads : RemoveFromMapping(t)
  \/ \E t \in Threads, k \in Keys : GetLock(t, k)
  \/ \E t \in Threads : GetRead(t)

SpecGetSet == Init /\ [][NextGetSet]_vars

\* ------------------------------------------------ a write, step by step
\* Log::write in two steps, with log_files locked over both: the append of
\* LogFile::write, then sync_data. Between the two the record is in the file
\* and not yet forced to disk. A thread at "write_sync" keeps in pos the
\* length the tail file had before its append, and in from which call it is in.

\* The directories a kill of the process can leave: what sync_data has not
\* forced to disk may be lost from any point of the appended record on
AfterKill ==
  IF \A t \in Threads : threads[t].pc # "write_sync" THEN {fs}
  ELSE Let(CHOOSE t \in Threads : threads[t].pc = "write_sync", LAMBDA t :
         {[fs EXCEPT !.inodes[log_files[LastKey(log_files)].file] = SubSeq(@, 1, kept)] :
            kept \in threads[t].pos..Len(fs.inodes[log_files[LastKey(log_files)].file])})

\* Log::write to the end of tail_file.write(record): the lock, the fetch_add
\* and the append
WriteAppend(t, operation) ==
  /\ status = "open"
  /\ threads[t].pc = "idle"
  /\ Len(written) < MaxWrites
  /\ ~Locked("segments")
  /\ \E w \in {LogWrite(log_files, next_index, fs, operation)} :
       /\ w.ok
       /\ fs' = w.fs
       /\ log_files' = w.log_files
       /\ next_index' = w.next_index
       /\ threads' = [threads EXCEPT ![t] =
                        [Idle EXCEPT !.pc = "write_sync",
                                     !.from = IF operation.tag = TagSet THEN "set" ELSE "remove",
                                     !.key = operation.key, !.value = operation.value,
                                     !.position = w.index,
                                     !.pos = Len(fs.inodes[log_files[LastKey(log_files)].file])]]
  /\ UNCHANGED <<status, mapping, written, last, before, compactions, opens>>
  /\ UNCHANGED <<poolVars, serverVars, overflow_checks>>

\* The rest of Log::write: sync_data, the unlock and Ok(last_index); the
\* thread is back in KvStore::set or KvStore::remove
WriteSync(t) ==
  /\ threads[t].pc = "write_sync"
  /\ written' = Append(written,
                       LogRecord(threads[t].position,
                                 IF threads[t].from = "set"
                                 THEN OpSet(threads[t].key, threads[t].value)
                                 ELSE OpRm(threads[t].key)))
  /\ threads' = [threads EXCEPT ![t] =
                   [@ EXCEPT !.pc = IF threads[t].from = "set" THEN "set_insert"
                                    ELSE "rm_remove",
                             !.from = "idle", !.pos = 0]]
  /\ UNCHANGED <<fs, status, log_files, next_index, mapping, last, before, compactions, opens>>
  /\ UNCHANGED <<poolVars, serverVars, overflow_checks>>

\* The process is killed, wherever its threads are
Kill ==
  /\ status = "open"
  /\ \E f \in AfterKill : Killed(f)
  /\ threads' = [t \in Threads |-> Idle]
  /\ last' = Did("kill", 0, 0, TRUE, None)
  /\ before' = NoSnapshot
  /\ UNCHANGED <<written, compactions, opens>>
  /\ UNCHANGED <<poolVars, serverVars, overflow_checks>>

NextDurable ==
  \/ Open
  \/ \E t \in Threads, k \in Keys, v \in Values : WriteAppend(t, OpSet(k, v))
  \/ \E t \in Threads, k \in Keys : WriteAppend(t, OpRm(k))
  \/ \E t \in Threads : WriteSync(t)
  \/ \E t \in Threads : SetInsert(t)
  \/ \E t \in Threads : RemoveFromMapping(t)
  \/ Kill

SpecDurable == Init /\ [][NextDurable]_vars

\* ------------------------------------------------- SharedQueueThreadPool
\* Message::Run(job) and Message::Shutdown. A job is known by its position in
\* jobs; it returns or it panics.
Run(j) == [kind |-> "Run", job |-> j]
Shutdown == [kind |-> "Shutdown", job |-> 0]

\* ThreadPool::spawn: Message::Run(job) is pushed. spawn borrows the pool, so
\* the pool has not been dropped.
Spawn(panics) ==
  /\ pool.state = "alive"
  /\ Len(jobs) < MaxJobs
  /\ queue' = Append(queue, Run(Len(jobs) + 1))
  /\ jobs' = Append(jobs, [state |-> "queued", panics |-> panics, by |-> 0])
  /\ UNCHANGED <<workers, pool>>
  /\ UNCHANGED <<storeVars, serverVars>>

\* thread_main, queue.pop(): Some(Run(f)) is run; anything else, Shutdown or
\* None (the queue is empty), returns from thread_main
ThreadMainPop(w) ==
  /\ workers[w].pc = "pop"
  /\ IF queue # <<>> /\ Head(queue).kind = "Run"
     THEN /\ workers' = [workers EXCEPT ![w].pc = "run", ![w].job = Head(queue).job]
          /\ jobs' = [jobs EXCEPT ![Head(queue).job].state = "running",
                                  ![Head(queue).job].by = w]
     ELSE /\ workers' = [workers EXCEPT ![w].pc = "exited"]
          /\ jobs' = jobs
  /\ queue' = IF queue = <<>> THEN queue ELSE Tail(queue)
  /\ pool' = pool
  /\ UNCHANGED <<storeVars, serverVars>>

\* ThreadMainRun without catch_unwind: the panic of a job ends the thread
ThreadMainRunExits(w) ==
  /\ workers[w].pc = "run"
  /\ workers' = [workers EXCEPT ![w].pc = IF jobs[workers[w].job].panics
                                           THEN "exited" ELSE "pop",
                                 ![w].job = 0]
  /\ jobs' = [jobs EXCEPT ![workers[w].job].state = "done"]
  /\ UNCHANGED <<queue, pool>>
  /\ UNCHANGED <<storeVars, serverVars>>

\* thread_main, catch_unwind(f): the job runs to its end or to its panic,
\* which is caught, and the loop goes round
ThreadMainRun(w) ==
  /\ workers[w].pc = "run"
  /\ workers' = [workers EXCEPT ![w].pc = "pop", ![w].job = 0,
                                 ![w].caught = @ \/ jobs[workers[w].job].panics]
  /\ jobs' = [jobs EXCEPT ![workers[w].job].state = "done"]
  /\ UNCHANGED <<queue, pool>>
  /\ UNCHANGED <<storeVars, serverVars>>

\* Drop, its first statement: the map over 0..threads.len() that would push
\* the Shutdown messages is built and dropped; an iterator adapter does
\* nothing until it is consumed, so no message is pushed
PoolDrop ==
  /\ pool.state = "alive"
  /\ pool' = [pool EXCEPT !.state = IF pool.threads = 0 THEN "dropped" ELSE "joining"]
  /\ UNCHANGED <<queue, workers, jobs>>
  /\ UNCHANGED <<storeVars, serverVars>>

\* Drop, its loop: threads.pop().unwrap().join(), which returns when that
\* thread has left thread_main
PoolJoin ==
  /\ pool.state = "joining"
  /\ workers[pool.threads].pc = "exited"
  /\ pool' = [pool EXCEPT !.threads = @ - 1,
                          !.state = IF pool.threads = 1 THEN "dropped" ELSE "joining"]
  /\ UNCHANGED <<queue, workers, jobs>>
  /\ UNCHANGED <<storeVars, serverVars>>

NextPool ==
  \/ \E panics \in BOOLEAN : Spawn(panics)
  \/ \E w \in Workers : ThreadMainPop(w)
  \/ \E w \in Workers : ThreadMainRun(w)
  \/ PoolDrop
  \/ PoolJoin

\* The operating system schedules every thread that can run
SpecPool ==
  /\ Init
  /\ [][NextPool]_vars
  /\ \A w \in Workers : WF_vars(ThreadMainPop(w))
  /\ \A w \in Workers : WF_vars(ThreadMainRun(w))

\* -------------------------------------------------------------- KvsServer
\* KvsServer is generic in its engine: an engine call returns what the
\* signatures of KvsEngine allow, Ok or an io::Error with its message.
Errors == 1..NumErrors

Requests ==
  {[kind |-> "Set", key |-> k, value |-> v] : k \in Keys, v \in Values}
    \cup {[kind |-> kind, key |-> k, value |-> 0] : kind \in {"Get", "Rm"}, k \in Keys}

EngineOk(some, v) == [ok |-> TRUE, some |-> some, value |-> v, what |-> 0]
EngineErr(e) == [ok |-> FALSE, some |-> FALSE, value |-> 0, what |-> e]

EngineResults(kind) ==
  {EngineErr(e) : e \in Errors} \cup {EngineOk(FALSE, 0)}
    \cup (IF kind = "Get" THEN {EngineOk(TRUE, v) : v \in Values} ELSE {})

\* ResponseOf that answers Ok whatever the engine returned
ResponseOfAlwaysOk(kind, result) ==
  [kind |-> kind, variant |-> "Ok", some |-> result.some, value |-> result.value, what |-> 0]

\* The match of process_connection on the engine's result: SetResponse,
\* GetResponse or RmResponse after the request, Ok(value) or
\* Error(Exception { what: err.to_string() })
ResponseOf(kind, result) ==
  IF result.ok
  THEN [kind |-> kind, variant |-> "Ok", some |-> result.some, value |-> result.value,
        what |-> 0]
  ELSE [kind |-> kind, variant |-> "Error", some |-> FALSE, value |-> 0,
        what |-> result.what]

\* process_connection returns an error: its thread logs it and ends
ConnectionFails(c) ==
  /\ conns' = [conns EXCEPT ![c] = [NoConn EXCEPT !.pc = "closed", !.pending = conns[c].pending]]
  /\ server' = [server EXCEPT !.failed = TRUE]

\* A log line that formats a Request or a response with "{}": Display::fmt
\* of these types calls itself through format_args!("{}", self), without end,
\* and the thread's stack overflows, which aborts the process. slog drops at
\* compile time the statements above its static max level, a feature of the
\* build; a build that drops info! goes on to pc next.
LogFormatted(c, next) ==
  IF server.info
  THEN /\ server' = [server EXCEPT !.aborted = TRUE]
       /\ conns' = [conns EXCEPT ![c].pc = "overflow"]
  ELSE /\ server' = server
       /\ conns' = [conns EXCEPT ![c] =
                       IF next = "reading"
                       THEN [NoConn EXCEPT !.pc = next,
                                           !.erred = (conns[c].response.variant = "Error")]
                       ELSE [conns[c] EXCEPT !.pc = next, !.erred = FALSE]]

\* run: listener.incoming() yields a connection and a thread is spawned for
\* it; process_connection begins with peer_addr and try_clone, which can fail
Accept(c) ==
  /\ server.accepting
  /\ ~server.aborted
  /\ conns[c].pc = "none"
  /\ \A d \in Conns : d < c => conns[d].pc # "none"
  /\ \E ok \in BOOLEAN :
       IF ok
       THEN /\ conns' = [conns EXCEPT ![c].pc = "reading"]
            /\ server' = [server EXCEPT !.accepted_after = @ \/ server.failed]
       ELSE ConnectionFails(c)
  /\ UNCHANGED <<engine, storeVars, poolVars>>

\* run: listener.incoming() yields an error, and stream? ends the accept loop
AcceptFails ==
  /\ server.accepting
  /\ ~server.aborted
  /\ server' = [server EXCEPT !.accepting = FALSE]
  /\ UNCHANGED <<conns, engine, storeVars, poolVars>>

\* process_connection: a request is decoded from the connection
ReadRequest(c, request) ==
  /\ ~server.aborted
  /\ conns[c].pc = "reading"
  /\ conns' = [conns EXCEPT ![c].pc = "received", ![c].request = request,
                             ![c].pending = TRUE]
  /\ UNCHANGED <<server, engine, storeVars, poolVars>>

\* ReadFails that also ends the accept loop
ReadFailsStopsServer(c) ==
  /\ ~server.aborted
  /\ conns[c].pc = "reading"
  /\ conns' = [conns EXCEPT ![c].pc = "closed"]
  /\ server' = [server EXCEPT !.failed = TRUE, !.accepting = FALSE]
  /\ UNCHANGED <<engine, storeVars, poolVars>>

\* process_connection: the bytes do not decode, the client has closed, or the
\* read fails; the error is returned
ReadFails(c) ==
  /\ ~server.aborted
  /\ conns[c].pc = "reading"
  /\ ConnectionFails(c)
  /\ UNCHANGED <<engine, storeVars, poolVars>>

\* process_connection: info!("Received request", format!("{}", request))
LogReceived(c) ==
  /\ ~server.aborted
  /\ conns[c].pc = "received"
  /\ LogFormatted(c, "calling")
  /\ UNCHANGED <<engine, storeVars, poolVars>>

\* EngineLock that does not wait for the Mutex
EngineLockNoWait(c) ==
  /\ ~server.aborted
  /\ conns[c].pc = "calling"
  /\ engine' = c
  /\ conns' = [conns EXCEPT ![c].pc = "executing",
                             ![c].request.key = 0, ![c].request.value = 0]
  /\ UNCHANGED <<server, storeVars, poolVars>>

\* process_connection: self.engine.lock() returns the guard and the engine's
\* set, get or remove is entered, the key and the value moved into it
EngineLock(c) ==
  /\ ~server.aborted
  /\ conns[c].pc = "calling"
  /\ engine = 0
  /\ engine' = c
  /\ conns' = [conns EXCEPT ![c].pc = "executing",
                             ![c].request.key = 0, ![c].request.value = 0]
  /\ UNCHANGED <<server, storeVars, poolVars>>

\* process_connection: the engine's set, get or remove returns; the
\* MutexGuard, a temporary of the statement, is dropped
EngineCall(c, result) ==
  /\ ~server.aborted
  /\ conns[c].pc = "executing"
  /\ result \in EngineResults(conns[c].request.kind)
  /\ engine' = 0
  /\ conns' = [conns EXCEPT ![c].pc = "responding", ![c].result = result]
  /\ UNCHANGED <<server, storeVars, poolVars>>

\* process_connection, send_response!: the response is serialized and
\* flushed, or the write fails and the error is returned
SendResponse(c) ==
  /\ ~server.aborted
  /\ conns[c].pc = "responding"
  /\ \E ok \in BOOLEAN :
       IF ok
       THEN /\ conns' = [conns EXCEPT ![c].pc = "sent", ![c].pending = FALSE,
                            ![c].result = NoResult,
                            ![c].response =
                               ResponseOf(conns[c].request.kind, conns[c].result)]
            /\ server' = [server EXCEPT !.served_after =
                             @ \/ \E d \in Conns : conns[d].pc = "closed"]
       ELSE ConnectionFails(c)
  /\ UNCHANGED <<engine, storeVars, poolVars>>

\* send_response!: info!("Sent response", format!("{}", resp)), then the
\* loop goes round
LogSent(c) ==
  /\ ~server.aborted
  /\ conns[c].pc = "sent"
  /\ LogFormatted(c, "reading")
  /\ UNCHANGED <<engine, storeVars, poolVars>>

NextServer ==
  \/ \E c \in Conns : Accept(c)
  \/ AcceptFails
  \/ \E c \in Conns, request \in Requests : ReadRequest(c, request)
  \/ \E c \in Conns : ReadFails(c)
  \/ \E c \in Conns : LogReceived(c)
  \/ \E c \in Conns : EngineLock(c)
  \/ \E c \in Conns, result \in EngineResults("Get") : EngineCall(c, result)
  \/ \E c \in Conns : SendResponse(c)
  \/ \E c \in Conns : LogSent(c)

\* The server under either build: info! kept or dropped
InitEitherBuild ==
  InitStore /\ InitPool /\ InitProfile(TRUE) /\ \E info \in BOOLEAN : InitServer(info)

SpecServer == InitEitherBuild /\ [][NextServer]_vars

\* ----------------------------------------------------------------- claims
\* What the operations that returned Ok say get(key) is: the value of the last
\* Set of the key if the last record written for the key is a Set, else None
WritesOf(key) == {i \in DOMAIN written : written[i].operation.key = key}

LatestGet(key) ==
  IF WritesOf(key) = {} THEN None
  ELSE LET r == written[MaxOf(WritesOf(key))]
       IN IF r.operation.tag = TagSet THEN Some(r.operation.value) ELSE None

FirstSession == status = "open" /\ opens = 1 /\ compactions = 0

\* C1: in the first session on a new directory, without compaction, get(k) is
\* Some(v) of the latest set(k, v) when the latest write of k is a set, and
\* None when k was never set or was removed last; and so is every result a
\* get has returned.
C1_GetReturnsLatestSet ==
  FirstSession =>
    /\ \A k \in Keys : KvStoreGet(log_files, mapping, fs, k) = LatestGet(k)
    /\ last.op = "get" => last.res = LatestGet(last.key)

\* C1 witness: a get has returned the second of two different values set for
\* its key
C1_Witness ==
  /\ FirstSession
  /\ last.op = "get"
  /\ last.res.some
  /\ \E i, j \in WritesOf(last.key) :
       /\ i < j
       /\ written[i].operation.tag = TagSet
       /\ written[j].operation.tag = TagSet
       /\ written[i].operation.value # written[j].operation.value
       /\ last.res.value = written[j].operation.value

\* C2: right after a store that was dropped is opened again, the open has
\* succeeded and get(k) is, for every key, what it was just before the drop.
C2_ReopenAgrees ==
  (last.op = "open" /\ before.by = "drop" /\ compactions = 0) =>
    /\ last.ok
    /\ View(log_files, mapping, fs) = before.view

\* C3: right after a store whose process was killed is opened again, the open
\* has succeeded and get(k) is Some(v) for every key whose latest operation
\* that returned Ok was set(k, v).
C3_KillThenOpenReadsSets ==
  (last.op = "open" /\ before.by = "kill" /\ compactions = 0) =>
    /\ last.ok
    /\ \A k \in Keys :
         LatestGet(k).some => KvStoreGet(log_files, mapping, fs, k) = LatestGet(k)

\* C4: the records Log::write has appended over the life of the directory
\* have strictly increasing record indexes.
C4_IndexStrictlyIncreasing ==
  \A i, j \in DOMAIN written : i < j => written[i].index < written[j].index

\* C5: a remove of a key that is not in the mapping returns an error, appends
\* no record and leaves the mapping as it is.
C5_RemoveAbsentFails ==
  [][\A k \in Keys :
       (Remove(k) /\ k \notin DOMAIN mapping) =>
         (~last'.ok /\ fs' = fs /\ mapping' = mapping)]_vars

\* C6: after KvStore::compact, every way KvStore::open can replay the
\* directory succeeds and rebuilds the mapping the engine held before the
\* compaction.
C6_ReplayAfterCompactRebuildsMapping ==
  (last.op = "compact" /\ status = "open") =>
    \A r \in KvStoreOpen(fs) : r.status = "ok" /\ r.mapping = before.mapping

\* Some key has been set twice
HasOverwrittenKey ==
  \E i, j \in DOMAIN written :
    /\ i < j
    /\ written[i].operation.tag = TagSet
    /\ written[j].operation.tag = TagSet
    /\ written[i].operation.key = written[j].operation.key

\* C7: after a compaction of a log that holds an overwritten key, get(k) is
\* for every key what it was before, and the total size of the log is smaller.
C7_CompactKeepsValuesAndShrinks ==
  (last.op = "compact" /\ HasOverwrittenKey /\ before.size > 0) =>
    /\ status = "open"
    /\ View(log_files, mapping, fs) = before.view
    /\ LogTotalSize(log_files, fs) < before.size

\* No thread is inside a call and none has panicked
AllReturned == \A t \in Threads : threads[t].pc = "idle"

\* C8: when threads have set a key through clones of the store and every call
\* has returned, none with a panic, get(key) is the value of the Set record
\* with the greatest record index.
C8_ConcurrentSetsLastWriterWins ==
  (status = "open" /\ AllReturned /\ compactions = 0) =>
    \A k \in Keys :
      (WritesOf(k) # {} /\ \A i \in WritesOf(k) : written[i].operation.tag = TagSet) =>
        KvStoreGet(log_files, mapping, fs, k) = LatestGet(k)

\* C9: a get that returns a value has read a record whose index is at least
\* the index of every set of its key that had returned Ok when the get started.
C9_GetReadsAtLeastReturnedSet ==
  [][\A t \in Threads :
       (GetRead(t) /\ last'.res.some /\ compactions = 0) =>
         threads[t].position >= threads[t].floor]_vars

\* A thread that holds the mapping waits for log_files (get) while a thread
\* that holds log_files waits for the mapping (the predicate of compact)
Deadlocked ==
  \E a, b \in Threads :
    /\ threads[a].pc = "get_read"
    /\ threads[b].pc = "compact"
    /\ threads[b].ord # <<>>

\* C10: no thread holds log_files and then locks the mapping, so no two
\* threads ever wait for each other's Mutex.
C10_NoDeadlock == ~Deadlocked

\* The *.log files of directory f and what they hold
LogFilesOf(f) == {name \in DOMAIN f.dir : name[2] = ".log"}

LogContents(f) == [name \in LogFilesOf(f) |-> Content(f, name)]

\* C11: an open of a directory that has *.log files and no MANIFEST fails,
\* and the *.log files hold afterwards what they held before.
C11_NoManifestWithLogsIsCorrupt ==
  [][(Open /\ ~Exists(fs, ManifestPath) /\ LogFilesOf(fs) # {}) =>
       (~last'.ok /\ LogContents(fs') = LogContents(fs))]_vars

\* A MANIFEST that write_manifest has written in full: the header, then as
\* many records as the header counts, and nothing else
WholeManifest(bytes) ==
  /\ Len(bytes) >= 2
  /\ bytes[1].t = "u64"
  /\ bytes[2].t = "u16"
  /\ Len(bytes) = 2 + 3 * bytes[2].v

\* C12: an open of a directory whose MANIFEST is there but does not decode
\* (header or entry) returns an error: it does not panic and it does not
\* succeed.
C12_UndecodableManifestIsError ==
  [][(Open /\ Exists(fs, ManifestPath) /\ ~WholeManifest(Content(fs, ManifestPath))) =>
       \A r \in KvStoreOpen(fs) : r.status = "err"]_vars

\* C13: every job passed to spawn is in the end taken by a worker, under a
\* scheduler that runs every thread that can run.
C13_SpawnedJobRuns ==
  \A j \in 1..MaxJobs :
    (j \in DOMAIN jobs) ~> (j \in DOMAIN jobs /\ jobs[j].state \in {"running", "done"})

\* C14: a worker whose job panics is at the top of its loop afterwards, and a
\* worker that has caught a panic and pops a Run message runs that job.
C14_PanicDoesNotKillWorker ==
  [][\A w \in Workers :
       /\ (ThreadMainRun(w) /\ jobs[workers[w].job].panics) => workers'[w].pc = "pop"
       /\ (ThreadMainPop(w) /\ workers[w].caught /\ queue # <<>> /\ Head(queue).kind = "Run")
            => (workers'[w].pc = "run" /\ workers'[w].job = Head(queue).job)]_vars

\* C14 witness: a worker that has caught the panic of one job is running
\* another job
C14_Witness ==
  \E w \in Workers :
    /\ workers[w].caught
    /\ workers[w].pc = "run"
    /\ \E j \in DOMAIN jobs : jobs[j].panics /\ jobs[j].state = "done" /\ jobs[j].by = w

\* The Shutdown messages in a queue
RECURSIVE CountShutdown(_)
CountShutdown(q) ==
  IF q = <<>> THEN 0
  ELSE (IF Head(q).kind = "Shutdown" THEN 1 ELSE 0) + CountShutdown(Tail(q))

\* C15: the drop of the pool pushes one Shutdown message for each worker, and
\* has returned only when every worker has left thread_main.
C15_DropSignalsAndJoins ==
  [][/\ PoolDrop => CountShutdown(queue') = CountShutdown(queue) + NumWorkers
     /\ pool'.state = "dropped" => \A w \in Workers : workers'[w].pc = "exited"]_vars

\* C16: a request that has been decoded and not answered is being served
\* (or the connection was closed by the failed write of its response), no
\* further request is decoded before it is answered, and a response just
\* sent is of the type of its request.
C16_OneResponsePerRequest ==
  /\ \A c \in Conns :
       /\ conns[c].pending =>
            conns[c].pc \in {"received", "calling", "executing", "responding", "closed"}
       /\ conns[c].pc = "sent" => conns[c].response.kind = conns[c].request.kind

\* C17: the step in which a connection's processing ends with an error
\* changes nothing else: the accept loop goes on as it was, the other
\* connections are where they were, and the engine Mutex is as it was.
C17_ConnectionErrorIsLocal ==
  [][\A c \in Conns :
       (conns[c].pc # "closed" /\ conns'[c].pc = "closed") =>
         /\ server'.accepting = server.accepting
         /\ server'.aborted = server.aborted
         /\ engine' = engine
         /\ \A d \in Conns \ {c} : conns'[d] = conns[d]]_vars

\* C17 witness: after a connection has ended with an error another one was
\* accepted, and a response was sent while a connection was closed
C17_Witness ==
  /\ server.accepting
  /\ server.accepted_after
  /\ server.served_after
  /\ \E c, d \in Conns : conns[d].pc = "closed" /\ conns[c].pc = "sent"

\* C18: the response sent for a call in which the engine returned an error is
\* the Error variant of the request's response type with the error's message,
\* and after it the connection is reading again.
C18_EngineErrorIsAnswered ==
  [][\A c \in Conns :
       /\ (conns[c].pc = "responding" /\ ~conns[c].result.ok /\ conns'[c].pc = "sent") =>
            conns'[c].response = [kind |-> conns[c].request.kind, variant |-> "Error",
                                  some |-> FALSE, value |-> 0,
                                  what |-> conns[c].result.what]
       /\ (conns[c].pc = "sent" /\ conns'[c].pc # "sent"
             /\ conns[c].response.variant = "Error") => conns'[c].pc = "reading"]_vars

\* C18 witness: a connection whose last response was an Error has decoded a
\* further request
C18_Witness ==
  \E c \in Conns : conns[c].erred /\ conns[c].pc = "received"

\* C19: at most one connection is inside an engine call, and it is the one
\* that holds the engine Mutex.
C19_OneEngineCallAtATime ==
  /\ Cardinality({c \in Conns : conns[c].pc = "executing"}) <= 1
  /\ \A c \in Conns : conns[c].pc = "executing" => engine = c

\* C19 witness: a connection is inside an engine call while another one, its
\* request decoded, waits for the Mutex
C19_Witness ==
  \E c, d \in Conns :
    /\ conns[c].pc = "executing"
    /\ conns[d].pc = "calling"

\* C20: the predicate KvStore::compact passes to the log keeps a Set record
\* exactly when the mapping holds its key at the record's index, and a Rm
\* record exactly when the mapping does not hold its key.
C20_PredicateKeepsLiveRecords ==
  status = "open" =>
    \A i \in DOMAIN written :
      CompactionPredicate(mapping, written[i]) =
        IF written[i].operation.tag = TagSet
        THEN /\ written[i].operation.key \in DOMAIN mapping
             /\ mapping[written[i].operation.key] = written[i].index
        ELSE written[i].operation.key \notin DOMAIN mapping

\* The records a file holds, in file order, when all of it decodes
RECURSIVE RecordsFrom(_, _)
RecordsFrom(bytes, off) ==
  IF off >= Len(bytes) THEN [ok |-> TRUE, records |-> <<>>]
  ELSE Let(DeserializeRecord(bytes, off), LAMBDA d :
         IF ~d.ok THEN [ok |-> FALSE, records |-> <<>>]
         ELSE Let(RecordsFrom(bytes, d.next), LAMBDA rest :
                [ok |-> rest.ok, records |-> <<d.record>> \o rest.records]))

\* new is a complete compaction of old: it decodes, and its records are the
\* records of old for which the predicate is true
IsCompactionOf(new, old, map) ==
  /\ RecordsFrom(new, 0).ok
  /\ Range(RecordsFrom(new, 0).records)
       = {r \in Range(RecordsFrom(old, 0).records) : CompactionPredicate(map, r)}
  /\ Len(RecordsFrom(new, 0).records)
       = Cardinality({i \in DOMAIN RecordsFrom(old, 0).records :
                        CompactionPredicate(map, RecordsFrom(old, 0).records[i])})

\* C21: a compaction of a segment whose <n>.log is there leaves <n>.log
\* there, with the original content or with the compacted content, and with
\* the compacted content when compact has returned Ok.
C21_CompactLeavesOriginalOrCompacted ==
  [][(last'.op = "compact" /\ compactions' = compactions + 1) =>
       \A k \in DOMAIN log_files :
         Exists(fs, LogFilePath(log_files[k].manifest_record.file_number)) =>
           /\ Exists(fs', LogFilePath(log_files[k].manifest_record.file_number))
           /\ \/ /\ ~last'.ok
                 /\ Content(fs', LogFilePath(log_files[k].manifest_record.file_number))
                      = Content(fs, LogFilePath(log_files[k].manifest_record.file_number))
              \/ IsCompactionOf(
                    Content(fs', LogFilePath(log_files[k].manifest_record.file_number)),
                    Content(fs, LogFilePath(log_files[k].manifest_record.file_number)),
                    mapping)]_vars

\* The offsets at which the records of a file start, by record index
OffsetsOf(bytes) == ScanRecords(bytes, 0, EmptyMap)

\* C22: while the store is open, the offset_map of every segment is the map
\* from the record indexes in the segment's file to the offsets at which
\* those records start, and a read of an index of the map returns the record
\* with that index.
C22_OffsetMapMatchesFile ==
  status = "open" =>
    \A k \in DOMAIN log_files :
      /\ OffsetsOf(fs.inodes[log_files[k].file]).ok
      /\ OffsetsOf(fs.inodes[log_files[k].file]).index_map = log_files[k].index_map
      /\ \A i \in DOMAIN log_files[k].index_map :
           /\ LogFileRead(log_files[k], fs, i).ok
           /\ LogFileRead(log_files[k], fs, i).record.index = i

\* The record indexes found in the *.log files of directory f
IndexesOnDisk(f) ==
  UNION {{r.index : r \in Range(RecordsFrom(Content(f, name), 0).records)} :
           name \in LogFilesOf(f)}

\* C24: after an open that succeeded, next_index is 1 + the greatest record
\* index in the files, and 0 when they hold no record.
C24_NextIndexFromScan ==
  (last.op = "open" /\ last.ok) =>
    next_index = IF IndexesOnDisk(fs) = {} THEN 0 ELSE MaxOf(IndexesOnDisk(fs)) + 1

\* C25: whatever the order of the HashMaps, Log::iter yields records whose
\* record indexes strictly increase.
C25_IterStrictlyIncreasing ==
  status = "open" =>
    \A order \in HashOrders(log_files) :
      /\ LogIter(log_files, fs, order).ok
      /\ \A i, j \in DOMAIN LogIter(log_files, fs, order).records :
           i < j => LogIter(log_files, fs, order).records[i].index
                      < LogIter(log_files, fs, order).records[j].index

\* The records with index i in the files the open segments hold
PresentAt(i) ==
  UNION {{r \in Range(RecordsFrom(fs.inodes[log_files[k].file], 0).records) : r.index = i} :
           k \in DOMAIN log_files}

\* C29: while the store is open, Log::read(i) returns the record with index
\* i when the store holds one, a NotFound error when it holds none, and never
\* a record with another index.
C29_ReadReturnsRecordOrNotFound ==
  status = "open" =>
    \A i \in 0..(MaxWrites + MaxOpens) :
      /\ PresentAt(i) # {} =>
           /\ LogRead(log_files, fs, i).ok
           /\ LogRead(log_files, fs, i).record \in PresentAt(i)
      /\ PresentAt(i) = {} =>
           /\ ~LogRead(log_files, fs, i).ok
           /\ LogRead(log_files, fs, i).err = "NotFound"
      /\ LogRead(log_files, fs, i).ok => LogRead(log_files, fs, i).record.index = i

\* The catalog write_manifest(records) is to write
CatalogOf(records) ==
  <<Tok("u64", MagicNumber), Tok("u16", Len(records))>>
    \o SerializeManifestRecords(SortByMaxIndex(records))

\* C23: MANIFEST is never a partially written catalog, and after a stop
\* inside write_manifest it is absent as before, or the catalog it was
\* before, or the complete new catalog.
C23_ManifestPreviousOrNew ==
  [][/\ Exists(fs', ManifestPath) => WholeManifest(Content(fs', ManifestPath))
     /\ last'.op = "kill_wm" =>
          \/ ~Exists(fs', ManifestPath) /\ ~Exists(fs, ManifestPath)
          \/ /\ Exists(fs', ManifestPath)
             /\ Exists(fs, ManifestPath)
             /\ Content(fs', ManifestPath) = Content(fs, ManifestPath)
          \/ /\ Exists(fs', ManifestPath)
             /\ Content(fs', ManifestPath) =
                  CatalogOf(IF status = "open"
                            THEN ManifestRecordsOf(log_files, DOMAIN log_files)
                            ELSE <<FileManifestRecord(0, 0, 0)>>)]_vars

\* C23 witness: the process was stopped while it wrote a catalog that differs
\* from the one in MANIFEST; MANIFEST.new is there, cut short, and MANIFEST
\* is whole
C23_Witness ==
  /\ last.op = "kill_wm"
  /\ opens = 1
  /\ Len(written) >= 2
  /\ Exists(fs, ManifestNewPath)
  /\ Content(fs, ManifestNewPath) # <<>>
  /\ ~WholeManifest(Content(fs, ManifestNewPath))
  /\ Exists(fs, ManifestPath)
  /\ WholeManifest(Content(fs, ManifestPath))

\* C30: a set or a remove whose write fails returns the error, leaves the
\* mapping as it is and has used up its record index: while the store stays
\* open next_index never goes back, so no later record gets that index.
C30_FailedWriteLeavesGap ==
  [][/\ \A kind \in IoKinds, n \in RecordTokens :
          (\/ SetFails(last'.key, last'.value, [kind |-> kind, wrote |-> n])
           \/ RemoveFails(last'.key, [kind |-> kind, wrote |-> n]))
            => /\ ~last'.ok
               /\ mapping' = mapping
               /\ next_index' = next_index + 1
     /\ (status = "open" /\ status' = "open") => next_index' >= next_index
     /\ (status = "open" /\ Len(written') > Len(written)) =>
          /\ written'[Len(written')].index = next_index
          /\ next_index' = next_index + 1]_vars

\* C30 witness: in the first session a set has returned Ok with a record
\* index above a gap that a failed write left
C30_Witness ==
  /\ status = "open"
  /\ opens = 1
  /\ last.op = "set"
  /\ last.ok
  /\ written # <<>>
  /\ written[Len(written)].index >= Len(written)
  /\ last.key \in DOMAIN mapping
  /\ mapping[last.key] = written[Len(written)].index

\* The records in the files the open segments hold
RecordsHeld ==
  UNION {Range(RecordsFrom(fs.inodes[log_files[k].file], 0).records) : k \in DOMAIN log_files}

\* C26: whatever the order of the HashMaps, Log::iter on the open log ends
\* after it has yielded every record the segments hold.
C26_IterYieldsEveryRecord ==
  status = "open" =>
    \A order \in HashOrders(log_files) :
      /\ LogIter(log_files, fs, order).ok
      /\ RecordsHeld \subseteq Range(LogIter(log_files, fs, order).records)

\* The segment descriptors: those of the open log and those in MANIFEST
Descriptors ==
  {log_files[k].manifest_record : k \in DOMAIN log_files}
    \cup Range(ReadManifest(fs).records)

\* C27: in the first session of a directory, after any appends and
\* rotations, every segment descriptor (of the open log and of MANIFEST) has
\* min_index <= max_index, two descriptors of different segments have
\* disjoint ranges, and every record a segment's file holds has its index in
\* the range of each descriptor of that segment.
C27_SegmentRangesCoverRecords ==
  (status = "open" /\ opens = 1) =>
    /\ \A d \in Descriptors : d.min_index <= d.max_index
    /\ \A d, e \in Descriptors :
         d.file_number # e.file_number =>
           (d.max_index < e.min_index \/ e.max_index < d.min_index)
    /\ \A k \in DOMAIN log_files :
         \A r \in Range(RecordsFrom(fs.inodes[log_files[k].file], 0).records) :
           \A d \in Descriptors :
             d.file_number = log_files[k].manifest_record.file_number =>
               (d.min_index <= r.index /\ r.index <= d.max_index)

\* C28: after a rotation every segment the manifest lists is on disk as
\* <file_number>.log, an open of the directory succeeds, and the records of
\* the active segment are read from the log it opened.
C28_RotatedSegmentsReopen ==
  (status = "open" /\ log_files[LastKey(log_files)].manifest_record.file_number > 0) =>
    /\ \A d \in Range(ReadManifest(fs).records) : Exists(fs, LogFilePath(d.file_number))
    /\ \A r \in KvStoreOpen(fs) :
         /\ r.status = "ok"
         /\ \A i \in DOMAIN log_files[LastKey(log_files)].index_map :
              /\ LogRead(r.log_files, r.fs, i).ok
              /\ LogRead(r.log_files, r.fs, i).record.index = i

\* A record is durable when every directory a kill can leave still holds it
\* where the log looks for it
Durable(i) ==
  \A f \in AfterKill : LogRead(log_files, f, i).ok /\ LogRead(log_files, f, i).record.index = i

\* C31: in every set and every remove the record is appended to the active
\* segment and synced before the mapping is updated and before the call
\* returns Ok: every position in the mapping, every position Log::write has
\* returned, and the record of a call that has returned Ok, is durable.
C31_DurableBeforeIndexAndOk ==
  status = "open" =>
    /\ \A k \in DOMAIN mapping : Durable(mapping[k])
    /\ \A t \in Threads : threads[t].pc \in {"set_insert", "rm_remove"}
                            => Durable(threads[t].position)
    /\ (last.ok /\ last.op \in {"set", "remove"})
         => \E i \in 0..(next_index - 1) :
              /\ Durable(i)
              /\ LogRead(log_files, fs, i).record.operation =
                   (IF last.op = "set" THEN OpSet(last.key, last.value) ELSE OpRm(last.key))

\* C32: in every state of an open engine, for every key k of the mapping the
\* record the log reads at mapping[k] exists and is a Set record with key k.
C32_IndexPointsAtSetOfKey ==
  status = "open" =>
    \A k \in DOMAIN mapping :
      /\ LogRead(log_files, fs, mapping[k]).ok
      /\ LogRead(log_files, fs, mapping[k]).record.operation.tag = TagSet
      /\ LogRead(log_files, fs, mapping[k]).record.operation.key = k

\* C33: a set or a remove that has appended its record and leaves the total
\* size of the log above the high-water mark starts a compaction of the log.
C33_CompactionAboveHighWaterMark ==
  [][(/\ Len(written') > Len(written)
      /\ LogTotalSize(log_files', fs') > HighWaterMark)
       => compactions' > compactions]_vars

\* What the history of the appended records says a get of the position
\* returns: the value of the Set record with that index
ValueAt(i) ==
  IF \E j \in DOMAIN written : written[j].index = i /\ written[j].operation.tag = TagSet
  THEN Some(written[CHOOSE j \in DOMAIN written : written[j].index = i].operation.value)
  ELSE GetErr

\* The value live for a key by the mapping, which a set that has appended
\* and not yet inserted has not changed
LiveBefore(k) == IF k \in DOMAIN mapping THEN ValueAt(mapping[k]) ELSE None

\* The threads that are in set(k, _) between the append and the mapping insert
SettingNow(k) == {u \in Threads : threads[u].pc = "set_insert" /\ threads[u].key = k}

\* C34: a get(k) that returns while one set(k, v) is between its append and
\* its mapping insert (every get that overlaps a set returns there, the
\* insert waiting for the mapping lock the get holds) returns the value live
\* for k before that set, None if there was none, or v: no other value and
\* no error.
C34_GetDuringSetIsOldOrNew ==
  [][\A k \in Keys :
       (/\ Cardinality(SettingNow(k)) = 1
        /\ \A u \in Threads : ~(threads[u].pc = "rm_remove" /\ threads[u].key = k)
        /\ \/ \E t \in Threads : /\ threads[t].pc = "get_read"
                                 /\ threads[t].key = k
                                 /\ threads'[t].pc = "idle"
           \/ threads' = threads /\ last' # last /\ last'.op = "get" /\ last'.key = k)
       => \E u \in SettingNow(k) :
            /\ last'.op = "get" /\ last'.key = k
            /\ last'.res \in {LiveBefore(k), Some(threads[u].value)}
            /\ last'.res.ok]_vars

\* a thread is in get(k), with the mapping locked and the position looked up,
\* while another is in set(k, v) with its record appended, v not being the
\* live value
C34_Witness ==
  \E t, u \in Threads :
    /\ threads[t].pc = "get_read"
    /\ threads[u].pc = "set_insert"
    /\ threads[t].key = threads[u].key
    /\ threads[u].position > threads[t].position
    /\ LiveBefore(threads[t].key) # Some(threads[u].value)
    /\ LiveBefore(threads[t].key).some

\* C35: when KvStore::compact has returned an error, every key that get
\* returned a value for before the compaction still has that value in the
\* running process, and a process that opens the directory after this one has
\* ended opens it and reads the same values.
C35_FailedCompactKeepsContents ==
  (status = "open" /\ last.op = "compact" /\ ~last.ok) =>
    /\ \A k \in Keys :
         before.view[k].some => KvStoreGet(log_files, mapping, fs, k) = before.view[k]
    /\ \A r \in KvStoreOpen(Reclaim(fs, {})) :
         /\ r.status = "ok"
         /\ \A k \in Keys :
              before.view[k].some => KvStoreGet(r.log_files, r.mapping, r.fs, k) = before.view[k]

\* C36: when one set(k, v) and one remove(k) of a key have been called on
\* clones of the store and both have returned, the mapping agrees with the
\* log: k is in the mapping exactly when the record of k with the greatest
\* index is a Set, and then mapping[k] is that record's index.
C36_SetAndRemoveAgreeWithLog ==
  (status = "open" /\ AllReturned) =>
    \A k \in Keys :
      (/\ Cardinality({i \in WritesOf(k) : written[i].operation.tag = TagSet}) = 1
       /\ Cardinality({i \in WritesOf(k) : written[i].operation.tag = TagRm}) = 1)
      => /\ k \in DOMAIN mapping <=> written[MaxOf(WritesOf(k))].operation.tag = TagSet
         /\ k \in DOMAIN mapping => mapping[k] = written[MaxOf(WritesOf(k))].index

\* C37: formatting the decoded request and formatting the response for the
\* server's log lines return: the step a connection takes after its request
\* was decoded brings it to the engine call, and the step it takes after its
\* response was sent brings it back to reading the next request.
C37_FormattingReturns ==
  [][\A c \in Conns :
       /\ (conns[c].pc = "received" /\ conns'[c] # conns[c]) => conns'[c].pc = "calling"
       /\ (conns[c].pc = "sent" /\ conns'[c] # conns[c]) => conns'[c].pc = "reading"]_vars

====
